---------------------------- MODULE Spec2Model ----------------------------
(***************************************************************************)
(* A model of modules/http2/h2_push.c: the Link header scanner, the push   *)
(* candidate builder, the push diary and the cache digest encoder.         *)
(*                                                                         *)
(* C strings are sequences of one-character strings; a NULL string is the  *)
(* sequence NULL.  64-bit unsigned values are four 16-bit limbs            *)
(* <<w3, w2, w1, w0>>, most significant first.                             *)
(***************************************************************************)
EXTENDS Integers, Sequences, FiniteSets, TLC

VARIABLES
    push_diary,   \* session->push_diary: the h2_push_diary, or the NULL diary
    op,           \* the call that produced the current state
    confN,        \* the argument N of h2_push_diary_create
    pushes,       \* the array of h2_push_collect, passed to h2_push_diary_update
    npushes,      \* the array h2_push_diary_update returned
    before,       \* the diary as it was when the last call started
    digest,       \* the arguments and results of h2_push_diary_digest_get
    req,          \* the request a response is collected for
    push_policy,  \* the push policy of that request
    res_headers,  \* res->headers, the response's header table
    link_values,  \* the link-values the Link fields of res->headers spell
    link_ctx      \* inspect_link's link_ctx and the step its loops are at

vars == <<push_diary, op, confN, pushes, npushes, before, digest,
          req, push_policy, res_headers, link_values, link_ctx>>

-----------------------------------------------------------------------------
(* Bounds of the model *)

\* diary sizes 1..MaxConfigN are configured in the diary specification
MaxConfigN == 3
\* h2_push_diary_update is called with arrays of at most MaxPushes candidates
MaxPushes == 2
\* h2_push_diary_create is tried with every N in -1..MaxSmallN (and with the
\* 32-bit values next to the powers of two)
MaxSmallN == 40
\* h2_push_diary_digest_get is called with maxP in -1..MaxMaxP
MaxMaxP == 3
\* a header text is made of at most MaxPieces pieces
MaxPieces == 4
\* a header text scanned step by step is made of at most MaxScanPieces pieces
MaxScanPieces == 3
\* a request of the header inputs has at most MaxHeaders headers
MaxHeaders == 2
\* a link-value has at most MaxParams parameters
MaxParams == 2
\* a response with several link-values has at most MaxLinkValues of them
MaxLinkValues == 2
\* the large diaries hold up to MaxGrowEntries entries
MaxGrowEntries == 180
\* and are filled from the seeds 0..MaxGrowSeed
MaxGrowSeed == 1
\* apr_pcalloc may fail any of the first MaxAllocs requests for a larger buffer
MaxAllocs == 2

-----------------------------------------------------------------------------
(* Characters and strings *)

NULL == <<"NULL">>

\* the printable ASCII characters, 32..126, in order ("bq" stands for the
\* backquote, which a TLA+ string cannot hold)
Ascii ==
    << " ", "!", "\"", "#", "$", "%", "&", "'", "(", ")", "*", "+", ",", "-",
       ".", "/", "0", "1", "2", "3", "4", "5", "6", "7", "8", "9", ":", ";",
       "<", "=", ">", "?", "@", "A", "B", "C", "D", "E", "F", "G", "H", "I",
       "J", "K", "L", "M", "N", "O", "P", "Q", "R", "S", "T", "U", "V", "W",
       "X", "Y", "Z", "[", "\\", "]", "^", "_", "bq", "a", "b", "c", "d", "e",
       "f", "g", "h", "i", "j", "k", "l", "m", "n", "o", "p", "q", "r", "s",
       "t", "u", "v", "w", "x", "y", "z", "{", "|", "}", "~" >>

\* the character codes (a tab is 9)
CodeTable ==
    [ c \in { Ascii[i] : i \in 1..Len(Ascii) } \cup { "\t" } |->
        IF c = "\t" THEN 9
        ELSE 31 + (CHOOSE i \in 1..Len(Ascii) : Ascii[i] = c) ]

Code(c) == CodeTable[c]

Range(s) == { s[i] : i \in 1..Len(s) }

\* F of the value v: a local variable, its value written once
Bind(v, F(_)) == F(v)

s_https == <<"h", "t", "t", "p", "s">>
s_http == <<"h", "t", "t", "p">>
s_example_com == <<"e", "x", "a", "m", "p", "l", "e", ".", "c", "o", "m">>
s_other_com == <<"o", "t", "h", "e", "r", ".", "c", "o", "m">>
s_GET == <<"G", "E", "T">>
s_HEAD == <<"H", "E", "A", "D">>

-----------------------------------------------------------------------------
(* Fixed-width arithmetic *)

Pow2(k) == 2 ^ k

INT_MAX == 2147483647
INT_MIN == (-2147483647) - 1

RECURSIVE BitOr(_, _)
\* a | b on non-negative ints
BitOr(a, b) ==
    IF a = 0 THEN b
    ELSE IF b = 0 THEN a
    ELSE (IF a % 2 = 1 \/ b % 2 = 1 THEN 1 ELSE 0) + 2 * BitOr(a \div 2, b \div 2)

RECURSIVE BitXor(_, _)
\* a ^ b on non-negative ints
BitXor(a, b) ==
    IF a = 0 THEN b
    ELSE IF b = 0 THEN a
    ELSE (IF a % 2 = b % 2 THEN 0 ELSE 1) + 2 * BitXor(a \div 2, b \div 2)

\* n >> k on non-negative ints
Shr(n, k) == n \div Pow2(k)

U64Zero == <<0, 0, 0, 0>>


-----------------------------------------------------------------------------
(* Hashing a push: calc_apr_hash and calc_sha256_hash *)

\* one step of apr_hashfunc_default (hash = hash * 33 + c, 32 bits wide) on
\* the limbs <<hi, lo>>
apr_hash_step(h, c) ==
    LET t == h[2] * 33 + c
    IN  << (h[1] * 33 + t \div 65536) % 65536, t % 65536 >>

RECURSIVE apr_hashfunc_default(_, _)
\* apr_hashfunc_default over the first n characters of str
apr_hashfunc_default(str, n) ==
    IF n = 0 THEN <<0, 0>>
    ELSE apr_hash_step(apr_hashfunc_default(str, n - 1), Code(str[n]))

\* the strings the model's requests are made of: their hashes are tabulated
HashedStrings ==
    { s_https, s_http, s_example_com, s_other_com,
      <<"/", "a">>, <<"/", "b">>, <<"/", "a", "b">>, <<"/", "b", "A">> }

AprHashTable == [ str \in HashedStrings |-> apr_hashfunc_default(str, Len(str)) ]

val_apr_hash(str) ==
    IF str \in HashedStrings THEN AprHashTable[str]
    ELSE apr_hashfunc_default(str, Len(str))

\* val = hash(scheme) << 32 ^ hash(authority) << 16 ^ hash(path)
calc_apr_hash(diary, push) ==
    LET hs == val_apr_hash(push.req.scheme)
        ha == val_apr_hash(push.req.authority)
        hp == val_apr_hash(push.req.path)
    IN  << hs[1], BitXor(hs[2], ha[1]), BitXor(ha[2], hp[1]), hp[2] >>

RECURSIVE md_mix(_, _, _)
\* a 16-bit mix of the first n characters of str with multiplier m
md_mix(str, n, m) ==
    IF n = 0 THEN m
    ELSE (md_mix(str, n - 1, m) * m + Code(str[n])) % 65536

\* The last 8 bytes of the message digest of str.  EVP's SHA-256 is library
\* code: it is a fixed function of the bytes hashed, here a 4 x 16 bit mix.
md_tail64(str) ==
    << md_mix(str, Len(str), 251), md_mix(str, Len(str), 241),
       md_mix(str, Len(str), 239), md_mix(str, Len(str), 233) >>

\* the digests of scheme://authority/path over the tabulated strings
MdTable ==
    [ t \in { <<a, b, c>> : a \in HashedStrings, b \in HashedStrings,
                             c \in HashedStrings } |->
        md_tail64(t[1] \o <<":", "/", "/">> \o t[2] \o t[3]) ]

sha256_tail64(scheme, authority, path) ==
    IF {scheme, authority, path} \subseteq HashedStrings
    THEN MdTable[<<scheme, authority, path>>]
    ELSE md_tail64(scheme \o <<":", "/", "/">> \o authority \o path)

\* the bits of a 64-bit value, most significant first
U64Bits(v) ==
    [ i \in 1..64 |-> Shr(v[((i - 1) \div 16) + 1], 15 - ((i - 1) % 16)) % 2 ]

RECURSIVE BitsToNat(_, _)
\* the number the first n bits of b spell
BitsToNat(b, n) ==
    IF n = 0 THEN 0 ELSE 2 * BitsToNat(b, n - 1) + b[n]

\* v >> d on a 64-bit value, 0 <= d < 64
U64Shr(v, d) ==
    LET b == U64Bits(v)
        s == [ i \in 1..64 |-> IF i <= d THEN 0 ELSE b[i - d] ]
    IN  [ k \in 1..4 |-> BitsToNat([ j \in 1..16 |-> s[16 * (k - 1) + j] ], 16) ]

\* the digest is taken over scheme, "://", authority, path; the hash is its
\* last 64 bits shifted down to mask_bits
calc_sha256_hash(diary, push) ==
    LET val == sha256_tail64(push.req.scheme, push.req.authority, push.req.path)
    IN  IF diary.mask_bits = 64 THEN val ELSE U64Shr(val, 64 - diary.mask_bits)

\* diary->dcalc
dcalc(diary, push) ==
    IF diary.dtype = "H2_PUSH_DIGEST_SHA256"
    THEN calc_sha256_hash(diary, push)
    ELSE calc_apr_hash(diary, push)

-----------------------------------------------------------------------------
(* The push diary *)

RECURSIVE SmearRight(_, _)
\* n |= n >> 1; n |= n >> 2; ... n |= n >> 16 (k = 1, 2, 4, 8, 16)
SmearRight(n, k) ==
    IF k > 16 THEN n ELSE SmearRight(BitOr(n, Shr(n, k)), 2 * k)

\* What ++n gives in an apr_int32_t.  At INT_MAX the increment overflows a
\* signed int, which is undefined: the build either wraps to INT_MIN or traps.
IncInt32(n) == IF n = INT_MAX THEN INT_MIN ELSE n + 1

IncInt32Traps(n) == n = INT_MAX

\* ceil_power_of_2 without its --n
ceil_power_of_2_no_decrement(n) ==
    IF n <= 2 THEN 2 ELSE IncInt32(SmearRight(n, 1))

ceil_power_of_2(n) ==
    IF n <= 2 THEN 2 ELSE IncInt32(SmearRight(n - 1, 1))

\* whether ceil_power_of_2(n) passes through the overflowing increment
ceil_power_of_2_overflows(n) ==
    n > 2 /\ IncInt32Traps(SmearRight(n - 1, 1))

\* the builds: with H2_OPENSSL h2_push_diary_create asks for SHA256 and gets
\* it, without it the switch falls to the default
DigestTypes == {"H2_PUSH_DIGEST_SHA256", "H2_PUSH_DIGEST_APR_HASH"}

NullDiary ==
    [ null |-> TRUE, NMax |-> 0, N |-> 0, mask_bits |-> 0, entries |-> <<>>,
      dtype |-> "", authority |-> NULL ]

diary_create(dtype, N) ==
    IF N > 0
    THEN [ null |-> FALSE,
           NMax |-> ceil_power_of_2(N),
           N |-> ceil_power_of_2(N),
           mask_bits |-> 64,
           entries |-> <<>>,
           dtype |-> dtype,
           authority |-> NULL ]
    ELSE NullDiary

\* h2_push_diary_find looking at the last entry only
h2_push_diary_find_last_only(diary, hash) ==
    IF diary.null \/ diary.entries = <<>> THEN -1
    ELSE IF diary.entries[Len(diary.entries)] = hash
    THEN Len(diary.entries) - 1
    ELSE -1

\* h2_push_diary_find with a loop that stops before index 0 (i > 0)
h2_push_diary_find_skips_first(diary, hash) ==
    IF diary.null THEN -1
    ELSE LET hits == { i \in 1..(Len(diary.entries) - 1) :
                          diary.entries[i + 1] = hash }
         IN  IF hits = {} THEN -1
             ELSE CHOOSE i \in hits : \A j \in hits : j <= i

\* the index (from 0) of hash, searching from the end; -1 if it is not there
h2_push_diary_find(diary, hash) ==
    IF diary.null THEN -1
    ELSE LET hits == { i \in 0..(Len(diary.entries) - 1) :
                          diary.entries[i + 1] = hash }
         IN  IF hits = {} THEN -1
             ELSE CHOOSE i \in hits : \A j \in hits : j <= i

\* move_to_last that swaps entry idx with the last entry
move_to_last_swaps(diary, idx) ==
    LET nelts == Len(diary.entries)
        lastidx == nelts - 1
    IN  IF nelts <= 0 \/ idx >= lastidx THEN diary
        ELSE [ diary EXCEPT !.entries =
                 [ @ EXCEPT ![idx + 1] = diary.entries[nelts],
                            ![nelts] = diary.entries[idx + 1] ] ]

move_to_last(diary, idx) ==
    LET nelts == Len(diary.entries)
        lastidx == nelts - 1
        entries == diary.entries
    IN  IF nelts <= 0 THEN diary
        ELSE IF idx < lastidx
        THEN [ diary EXCEPT !.entries =
                 [ k \in 1..nelts |->
                     IF k - 1 < idx THEN entries[k]
                     ELSE IF k - 1 < lastidx THEN entries[k + 1]
                     ELSE entries[idx + 1] ] ]
        ELSE diary

\* remove_first that drops the last entry instead of the first
remove_first_drops_last(diary) ==
    LET lastidx == Len(diary.entries) - 1
    IN  IF lastidx > 0
        THEN [ diary EXCEPT !.entries = SubSeq(diary.entries, 1, lastidx) ]
        ELSE diary

remove_first(diary) ==
    LET lastidx == Len(diary.entries) - 1
    IN  IF lastidx > 0
        THEN [ diary EXCEPT !.entries = Tail(diary.entries) ]
        ELSE diary

RECURSIVE evict_loop(_)
\* while (nelts >= N) remove_first(diary): the diary when the loop ends, or
\* hang when an iteration changes nothing and the condition still holds
evict_loop(diary) ==
    IF Len(diary.entries) >= diary.N
    THEN IF remove_first(diary) = diary
         THEN [ hang |-> TRUE, diary |-> diary ]
         ELSE evict_loop(remove_first(diary))
    ELSE [ hang |-> FALSE, diary |-> diary ]

\* h2_push_diary_append without the eviction loop
h2_push_diary_append_no_evict(diary, e) ==
    [ hang |-> FALSE, diary |-> [ diary EXCEPT !.entries = Append(@, e) ] ]

h2_push_diary_append(diary, e) ==
    LET r == evict_loop(diary)
    IN  IF r.hang THEN r
        ELSE [ hang |-> FALSE,
               diary |-> [ r.diary EXCEPT !.entries = Append(@, e) ] ]

\* no h2_push_diary_digest_get call was the last call
NoDigest ==
    [ maxP |-> 0, authority |-> NULL, status |-> "", pdata |-> <<>>, plen |-> 0,
      hashes |-> <<>>, datalen |-> 0, enomem |-> FALSE, hashes_size |-> 0,
      overrun |-> FALSE ]

\* an apr_array_header_t of pushes, or the NULL pointer
NullArray == [ null |-> TRUE, elts |-> <<>> ]

Array(elts) == [ null |-> FALSE, elts |-> elts ]

\* one iteration of the loop of h2_push_diary_update, on the state
\* [diary, npushes, hang]
update_push(st, push) ==
    LET hash == dcalc(st.diary, push)
        idx == h2_push_diary_find(st.diary, hash)
    IN  IF st.hang THEN st
        ELSE IF idx >= 0
        THEN [ st EXCEPT !.diary = move_to_last(st.diary, idx) ]
        ELSE LET r == h2_push_diary_append(st.diary, hash)
             IN  [ diary |-> r.diary,
                   npushes |-> Array(st.npushes.elts \o <<push>>),
                   hang |-> r.hang ]

RECURSIVE update_loop(_, _, _)
\* the loop of h2_push_diary_update after its first k iterations
update_loop(diary, ps, k) ==
    IF k = 0 THEN [ diary |-> diary, npushes |-> NullArray, hang |-> FALSE ]
    ELSE update_push(update_loop(diary, ps, k - 1), ps.elts[k])

\* h2_push_diary_update setting npushes to NULL before it looks at the diary
diary_update_drops(diary, ps) ==
    IF ~diary.null /\ ~ps.null
    THEN update_loop(diary, ps, Len(ps.elts))
    ELSE [ diary |-> diary, npushes |-> NullArray, hang |-> FALSE ]

\* h2_push_diary_update(session, pushes): [diary, npushes, hang]
diary_update(diary, ps) ==
    IF ~diary.null /\ ~ps.null
    THEN update_loop(diary, ps, Len(ps.elts))
    ELSE [ diary |-> diary, npushes |-> ps, hang |-> FALSE ]

-----------------------------------------------------------------------------
(* The cache digest: gset_encoder and h2_push_diary_digest_get *)

\* the size of the encoder's first buffer
InitialDataLen == 512

\* h2_log2 is defined in h2_util.c: the position of the highest set bit of n
\* (31 for a negative int), 0 for n = 0
h2_log2(n) ==
    IF n = 0 THEN 0
    ELSE IF n < 0 THEN 31
    ELSE CHOOSE k \in 0..30 : Pow2(k) <= n /\ n \div 2 < Pow2(k)

H2MIN(x, y) == IF x < y THEN x ELSE y

\* limb j of v, counted from the least significant (j = 0)
Limb(v, j) == v[4 - j]

\* v >> d as a number, for a 64-bit v and a d that leaves fewer than 31 bits
U64ShrNat(v, d) ==
    LET p == d \div 16
        part(j) == IF j < p THEN 0
                   ELSE IF j = p THEN Shr(Limb(v, j), d - 16 * p)
                   ELSE Limb(v, j) * Pow2(16 * j - d)
    IN  part(0) + part(1) + part(2) + part(3)

cbit_mask == <<128, 64, 32, 16, 8, 4, 2, 1>>

\* x & ~m for a byte x and a one-bit mask m
ClearBit(x, m) == IF (x \div m) % 2 = 1 THEN x - m ELSE x

\* data with byte i (from 0) set to v; the bytes between the last one
\* written and i are the zeros apr_pcalloc left
SetByte(data, i, v) ==
    IF i + 1 <= Len(data) THEN [ data EXCEPT ![i + 1] = v ]
    ELSE data \o [ k \in 1..(i - Len(data)) |-> 0 ] \o <<v>>

\* gset_encode_bit asking for a larger buffer one byte late (offset > datalen)
gset_encode_bit_late_growth(encoder, bit) ==
    LET grows == encoder.bit + 1 >= 8 /\ encoder.offset + 1 > encoder.datalen
        nomem == grows /\ (encoder.nalloc + 1) \in encoder.fails
        moved ==
            IF encoder.bit + 1 >= 8
            THEN [ encoder EXCEPT !.offset = @ + 1,
                                  !.bit = 0,
                                  !.datalen = IF grows THEN 2 * @ ELSE @,
                                  !.nalloc = IF grows THEN @ + 1 ELSE @,
                                  !.data = SetByte(@, encoder.offset + 1, 255),
                                  !.overrun = @ \/ encoder.offset + 1 >=
                                      (IF grows THEN 2 ELSE 1) * encoder.datalen,
                                  !.status = "APR_SUCCESS" ]
            ELSE [ encoder EXCEPT !.bit = @ + 1, !.status = "APR_SUCCESS" ]
    IN  IF nomem
        THEN [ encoder EXCEPT !.bit = @ + 1,
                              !.offset = @ + 1,
                              !.nalloc = @ + 1,
                              !.status = "APR_ENOMEM",
                              !.enomem = TRUE ]
        ELSE IF bit = 0
        THEN [ moved EXCEPT !.data[moved.offset + 1] =
                                ClearBit(@, cbit_mask[moved.bit + 1]),
                            !.overrun = @ \/ moved.offset >= moved.datalen ]
        ELSE moved

\* encoder->data is kept as its bytes up to the last one written; the bytes
\* above are the zeros apr_pcalloc left, up to datalen.  The encoder carries
\* status, what the call returned, nalloc, the number of times it asked
\* apr_pcalloc for a larger buffer, and fails, those of the requests that
\* apr_pcalloc answers with NULL.
gset_encode_bit(encoder, bit) ==
    LET grows == encoder.bit + 1 >= 8 /\ encoder.offset + 1 >= encoder.datalen
        nomem == grows /\ (encoder.nalloc + 1) \in encoder.fails
        moved ==
            IF encoder.bit + 1 >= 8
            THEN [ encoder EXCEPT !.offset = @ + 1,
                                  !.bit = 0,
                                  !.datalen = IF grows THEN 2 * @ ELSE @,
                                  !.nalloc = IF grows THEN @ + 1 ELSE @,
                                  !.data = SetByte(@, encoder.offset + 1, 255),
                                  !.overrun = @ \/ encoder.offset + 1 >=
                                      (IF grows THEN 2 ELSE 1) * encoder.datalen,
                                  !.status = "APR_SUCCESS" ]
            ELSE [ encoder EXCEPT !.bit = @ + 1, !.status = "APR_SUCCESS" ]
    IN  IF nomem
        THEN [ encoder EXCEPT !.bit = @ + 1,
                              !.offset = @ + 1,
                              !.nalloc = @ + 1,
                              !.status = "APR_ENOMEM",
                              !.enomem = TRUE ]
        ELSE IF bit = 0
        THEN [ moved EXCEPT !.data[moved.offset + 1] =
                                ClearBit(@, cbit_mask[moved.bit + 1]),
                            !.overrun = @ \/ moved.offset >= moved.datalen ]
        ELSE moved

RECURSIVE encode_flex(_, _)
\* for (; flex_bits != 0; --flex_bits) gset_encode_bit(encoder, 1)
encode_flex(encoder, flex_bits) ==
    IF flex_bits = 0 \/ encoder.status # "APR_SUCCESS" THEN encoder
    ELSE encode_flex(gset_encode_bit(encoder, 1), flex_bits - 1)

RECURSIVE encode_fixed(_, _, _)
\* for (i = fixed_bits - 1; i >= 0; --i) gset_encode_bit(encoder, (delta >> i) & 1)
encode_fixed(encoder, delta, i) ==
    IF i < 0 \/ encoder.status # "APR_SUCCESS" THEN encoder
    ELSE encode_fixed(gset_encode_bit(encoder, Shr(delta, i) % 2), delta, i - 1)

\* the encoder as gset_encode_next leaves it, status being what it returns
gset_encode_next(encoder, pval) ==
    Bind(encode_flex([ encoder EXCEPT !.last = pval, !.status = "APR_SUCCESS" ],
                     Shr(pval - encoder.last, encoder.fixed_bits)), LAMBDA e1 :
        IF e1.status # "APR_SUCCESS" THEN e1
        ELSE Bind(gset_encode_bit(e1, 0), LAMBDA e2 :
                 IF e2.status # "APR_SUCCESS" THEN e2
                 ELSE encode_fixed(e2, pval - encoder.last, encoder.fixed_bits - 1) ))

\* qsort(hashes, hash_count, sizeof(apr_uint64_t), cmp_puint64): each value
\* goes to the place that the number of values before it in the order gives
qsort(s) ==
    LET n == Len(s)
        place == [ i \in 1..n |->
                    1 + Cardinality({ j \in 1..n :
                                        s[j] < s[i] \/ (s[j] = s[i] /\ j < i) }) ]
                 \o <<>>
    IN  [ k \in 1..n |-> s[CHOOSE i \in 1..n : place[i] = k] ] \o <<>>

\* The array hashes is given hash_count bytes and holds hash_count 64-bit
\* values: slot i (from 0) lies inside the allocation when 8 * (i + 1) <=
\* hash_count.  Writing and sorting the slots outside it is undefined: what
\* is read back from them is either what was written or what another
\* allocation of the pool left there (zeros).
HashSlotInBounds(i, alloc_bytes) == 8 * (i + 1) <= alloc_bytes

HashesOutcomes(written, alloc_bytes) ==
    { qsort(written),
      qsort([ i \in 1..Len(written) |->
                  IF HashSlotInBounds(i - 1, alloc_bytes) THEN written[i] ELSE 0 ]) }

RECURSIVE encode_hashes(_, _, _, _)
\* the iterations lo..hi (from 1) of the loop over the sorted hashes, those
\* of the lower half of the range before those of the upper half; the value
\* gset_encode_next returns is dropped
encode_hashes(encoder, hashes, lo, hi) ==
    IF lo > hi THEN encoder
    ELSE IF lo = hi
    THEN IF lo = 1 \/ hashes[lo] # hashes[lo - 1]
         THEN gset_encode_next(encoder, hashes[lo])
         ELSE encoder
    ELSE Bind(encode_hashes(encoder, hashes, lo, (lo + hi) \div 2), LAMBDA e :
             IF e.offset < 0 THEN e
             ELSE encode_hashes(e, hashes, (lo + hi) \div 2 + 1, hi))

\* the encoder set up with log2n, log2p taken from nelts, maxP unrounded
digest_encoder_unrounded(diary, maxP) ==
    LET log2n == h2_log2(Len(diary.entries))
        log2p == H2MIN(diary.mask_bits - log2n, h2_log2(IF maxP < 0 THEN 0 ELSE maxP))
    IN  [ log2p |-> log2p,
          mask_bits |-> log2n + log2p,
          delta_bits |-> diary.mask_bits - (log2n + log2p),
          fixed_bits |-> log2p,
          fixed_mask |-> IF log2p = 0 THEN 0 ELSE 2 * (Pow2(log2p - 1) - 1) + 1,
          datalen |-> InitialDataLen,
          data |-> <<log2n, log2p>>,
          offset |-> 1,
          bit |-> 8,
          last |-> 0,
          status |-> "APR_SUCCESS",
          nalloc |-> 0,
          fails |-> {},
          enomem |-> FALSE,
          overrun |-> FALSE ]

\* the encoder h2_push_diary_digest_get sets up
digest_encoder(diary, maxP) ==
    LET nelts == Len(diary.entries)
        N == ceil_power_of_2(nelts)
        log2n == h2_log2(N)
        log2pmax == h2_log2(ceil_power_of_2(maxP))
        log2p == H2MIN(diary.mask_bits - log2n, log2pmax)
    IN  [ log2p |-> log2p,
          mask_bits |-> log2n + log2p,
          delta_bits |-> diary.mask_bits - (log2n + log2p),
          fixed_bits |-> log2p,
          fixed_mask |-> IF log2p = 0 THEN 0 ELSE 2 * (Pow2(log2p - 1) - 1) + 1,
          datalen |-> InitialDataLen,
          data |-> <<log2n, log2p>>,
          offset |-> 1,
          bit |-> 8,
          last |-> 0,
          status |-> "APR_SUCCESS",
          nalloc |-> 0,
          fails |-> {},
          enomem |-> FALSE,
          overrun |-> FALSE ]

\* the authority test taken as passed
digest_authority_matches_always(diary, authority) == TRUE

\* !authority || !diary->authority || !strcmp("*", authority)
\*   || !strcmp(diary->authority, authority)
digest_authority_matches(diary, authority) ==
    \/ authority = NULL
    \/ diary.authority = NULL
    \/ authority = <<"*">>
    \/ diary.authority = authority

\* hashes = apr_pcalloc(encoder.pool, hash_count): the bytes asked for
hashes_alloc(hash_count) == hash_count

\* the values written to hashes[]
digest_hashes(diary, encoder) ==
    [ i \in 1..Len(diary.entries) |->
        U64ShrNat(diary.entries[i], encoder.delta_bits) ] \o <<>>

\* h2_push_diary_digest_get(diary, pool, maxP, authority, &data, &len): the
\* possible [status, pdata, plen, hashes] when apr_pcalloc fails the
\* requests fails for a larger buffer; datalen is the size of the buffer
\* *pdata points to, enomem whether a gset_encode_next returned APR_ENOMEM
diary_digest_get(diary, maxP, authority, fails) ==
    LET encoder == [ digest_encoder(diary, maxP) EXCEPT !.fails = fails ]
        hash_count == Len(diary.entries)
        done(e, hashes) ==
            [ maxP |-> maxP, authority |-> authority, status |-> "APR_SUCCESS",
              pdata |-> e.data, plen |-> e.offset + 1, hashes |-> hashes,
              datalen |-> e.datalen, enomem |-> e.enomem,
              hashes_size |-> IF hashes = <<>> THEN 0 ELSE hashes_alloc(hash_count),
              overrun |-> e.overrun ]
    IN  IF digest_authority_matches(diary, authority)
        THEN { done(encode_hashes(encoder, hashes, 1, hash_count), hashes) :
                 hashes \in HashesOutcomes(digest_hashes(diary, encoder),
                                           hashes_alloc(hash_count)) }
        ELSE { done(encoder, <<>>) }

-----------------------------------------------------------------------------
(* The Link header scanner: link_ctx and its readers *)

\* apr_isalnum
Alnum ==
    { Ascii[i] : i \in 17..26 } \cup { Ascii[i] : i \in 34..59 }
    \cup { Ascii[i] : i \in 66..91 }

attr_char(c) ==
    c \in { "!", "#", "$", "&", "+", "-", ".", "^", "_", "bq", "|", "~" } \cup Alnum

ptoken_char(c) ==
    c \in { "!", "#", "$", "&", "'", "(", ")", "*", "+", "-", ".", "/", ":",
            "<", "=", ">", "?", "@", "[", "]", "^", "_", "bq", "{", "|", "}",
            "~" } \cup Alnum

\* ctx->s[i], for i from 0
CharAt(ctx, i) == ctx.s[i + 1]

RECURSIVE skip_ws_from(_, _)
skip_ws_from(ctx, i) ==
    IF i < ctx.slen /\ CharAt(ctx, i) \in { " ", "\t" }
    THEN skip_ws_from(ctx, i + 1)
    ELSE i

\* every reader gives [ok, ctx]: what it returns and the ctx it leaves
skip_ws(ctx) ==
    LET i == skip_ws_from(ctx, ctx.i)
    IN  [ ok |-> i < ctx.slen, ctx |-> [ ctx EXCEPT !.i = i ] ]

\* find_chr taking the end of the text for c when c is not found
find_chr_or_end(ctx, c) ==
    LET js == { j \in ctx.i..(ctx.slen - 1) : CharAt(ctx, j) = c }
    IN  IF js = {} THEN [ ok |-> TRUE, idx |-> ctx.slen ]
        ELSE [ ok |-> TRUE, idx |-> CHOOSE j \in js : \A k \in js : j <= k ]

\* [ok, idx]: the first j >= ctx->i with s[j] = c
find_chr(ctx, c) ==
    LET js == { j \in ctx.i..(ctx.slen - 1) : CharAt(ctx, j) = c }
    IN  IF js = {} THEN [ ok |-> FALSE, idx |-> 0 ]
        ELSE [ ok |-> TRUE, idx |-> CHOOSE j \in js : \A k \in js : j <= k ]

read_chr(ctx, c) ==
    IF ctx.i < ctx.slen /\ CharAt(ctx, ctx.i) = c
    THEN [ ok |-> TRUE, ctx |-> [ ctx EXCEPT !.i = @ + 1 ] ]
    ELSE [ ok |-> FALSE, ctx |-> ctx ]

mk_str(ctx, end) ==
    IF ctx.i < end THEN SubSeq(ctx.s, ctx.i + 1, end) ELSE <<>>

\* skip_ws(ctx) && read_chr(ctx, c)
skip_ws_read_chr(ctx, c) ==
    Bind(skip_ws(ctx), LAMBDA w : IF w.ok THEN read_chr(w.ctx, c) ELSE w)

\* [ok, ctx, str]
read_qstring(ctx) ==
    Bind(skip_ws_read_chr(ctx, "\""), LAMBDA q :
    Bind(find_chr(q.ctx, "\""), LAMBDA f :
        IF q.ok /\ f.ok
        THEN [ ok |-> TRUE, ctx |-> [ q.ctx EXCEPT !.i = f.idx + 1 ],
               str |-> mk_str(q.ctx, f.idx) ]
        ELSE [ ok |-> FALSE, ctx |-> q.ctx, str |-> NULL ] ))

RECURSIVE span_ptoken(_, _)
span_ptoken(ctx, i) ==
    IF i < ctx.slen /\ ptoken_char(CharAt(ctx, i)) THEN span_ptoken(ctx, i + 1) ELSE i

\* [ok, ctx, str]
read_ptoken(ctx) ==
    Bind(skip_ws(ctx), LAMBDA w :
    Bind(span_ptoken(w.ctx, w.ctx.i), LAMBDA i :
        IF w.ok /\ i > w.ctx.i
        THEN [ ok |-> TRUE, ctx |-> [ w.ctx EXCEPT !.i = i ], str |-> mk_str(w.ctx, i) ]
        ELSE [ ok |-> FALSE, ctx |-> w.ctx, str |-> NULL ] ))

read_link(ctx) ==
    Bind(skip_ws_read_chr(ctx, "<"), LAMBDA q :
    Bind(find_chr(q.ctx, ">"), LAMBDA f :
        IF q.ok /\ f.ok
        THEN [ ok |-> TRUE,
               ctx |-> [ q.ctx EXCEPT !.link = mk_str(q.ctx, f.idx), !.i = f.idx + 1 ] ]
        ELSE [ ok |-> FALSE, ctx |-> q.ctx ] ))

RECURSIVE span_attr(_, _)
span_attr(ctx, i) ==
    IF i < ctx.slen /\ attr_char(CharAt(ctx, i)) THEN span_attr(ctx, i + 1) ELSE i

\* [ok, ctx, str]
read_pname(ctx) ==
    Bind(skip_ws(ctx), LAMBDA w :
    Bind(span_attr(w.ctx, w.ctx.i), LAMBDA i :
        IF w.ok /\ i > w.ctx.i
        THEN [ ok |-> TRUE, ctx |-> [ w.ctx EXCEPT !.i = i ], str |-> mk_str(w.ctx, i) ]
        ELSE [ ok |-> FALSE, ctx |-> w.ctx, str |-> NULL ] ))

\* [ok, ctx, str]
read_pvalue(ctx) ==
    Bind(skip_ws_read_chr(ctx, "="), LAMBDA e :
        IF ~e.ok THEN [ ok |-> FALSE, ctx |-> e.ctx, str |-> NULL ]
        ELSE Bind(read_qstring(e.ctx), LAMBDA q :
                 IF q.ok THEN q ELSE read_ptoken(q.ctx) ))

\* lower case of a character and of a string, as apr_table's key comparison
\* and apr_strnatcasecmp see them
ToLower(c) ==
    IF Code(c) >= 65 /\ Code(c) <= 90 THEN Ascii[Code(c) + 32 - 31] ELSE c

LowerStr(s) == [ i \in 1..Len(s) |-> ToLower(s[i]) ]

\* an apr_table_t is the sequence of its <<key, value>> entries
\* apr_table_get: the value of the first entry whose key is key, ignoring
\* case; NULL when there is none
apr_table_get(t, key) ==
    LET hits == { i \in 1..Len(t) : LowerStr(t[i][1]) = LowerStr(key) }
    IN  IF hits = {} THEN NULL
        ELSE t[CHOOSE i \in hits : \A j \in hits : i <= j][2]

\* apr_table_setn: the first entry with the key gets the value and the other
\* entries with the key are dropped; without one the entry is added
apr_table_setn(t, key, val) ==
    LET hits == { i \in 1..Len(t) : LowerStr(t[i][1]) = LowerStr(key) }
        first == CHOOSE i \in hits : \A j \in hits : i <= j
        set == [ i \in 1..Len(t) |-> IF i = first THEN <<t[i][1], val>> ELSE t[i] ]
        keep(e) == LowerStr(e[1]) # LowerStr(key) \/ e = <<t[first][1], val>>
    IN  IF hits = {} THEN Append(t, <<key, val>>)
        ELSE SelectSeq(set, keep)

read_param(ctx) ==
    Bind(skip_ws_read_chr(ctx, ";"), LAMBDA s :
        IF ~s.ok THEN [ ok |-> FALSE, ctx |-> s.ctx ]
        ELSE Bind(read_pname(s.ctx), LAMBDA n :
        IF ~n.ok THEN [ ok |-> FALSE, ctx |-> n.ctx ]
        ELSE Bind(read_pvalue(n.ctx), LAMBDA v :
            [ ok |-> TRUE,
              ctx |-> [ v.ctx EXCEPT !.params =
                          apr_table_setn(@, n.str, IF v.ok THEN v.str ELSE <<>>) ] ] )))

\* read_sep that finds no separator
read_sep_none(ctx) == [ ok |-> FALSE, ctx |-> ctx ]

read_sep(ctx) == skip_ws_read_chr(ctx, ",")

\* init_params leaving the parameters of the link-value before
init_params_keep(ctx) == ctx

init_params(ctx) == [ ctx EXCEPT !.params = <<>> ]

-----------------------------------------------------------------------------
(* apr_uri_parse and apr_uri_unparse, as far as add_push uses them *)

\* the first index i >= from (from 1) of s with s[i] in stops; Len(s) + 1 if none
FirstOf(s, from, stops) ==
    LET hits == { i \in from..Len(s) : s[i] \in stops }
    IN  IF hits = {} THEN Len(s) + 1 ELSE CHOOSE i \in hits : \A j \in hits : i <= j

\* s from index a on, up to index b - 1
Slice(s, a, b) == SubSeq(s, a, b - 1)

\* the path, query and fragment of the text from index a on
uri_path_part(s, a) ==
    LET e == FirstOf(s, a, { "?", "#" })
        f == FirstOf(s, a, { "#" })
    IN  [ path |-> IF e > a THEN Slice(s, a, e) ELSE NULL,
          query |-> IF e <= Len(s) /\ s[e] = "?" THEN Slice(s, e + 1, f) ELSE NULL,
          fragment |-> IF f <= Len(s) THEN Slice(s, f + 1, Len(s) + 1) ELSE NULL ]

Digits == { Ascii[i] : i \in 17..26 }

\* hostinfo is [user[:password]@]host[:port]; the port must be a number
uri_port_ok(hostinfo) ==
    LET at == { i \in 1..Len(hostinfo) : hostinfo[i] = "@" }
        h == IF at = {} THEN 1 ELSE (CHOOSE i \in at : \A j \in at : j <= i) + 1
        c == FirstOf(hostinfo, h, { ":" })
    IN  \A i \in (c + 1)..Len(hostinfo) : hostinfo[i] \in Digits

\* the text from index a on is the authority and what follows it
uri_authority_part(s, a, scheme) ==
    LET e == FirstOf(s, a, { "/", "?", "#" })
        hostinfo == Slice(s, a, e)
    IN  [ ok |-> uri_port_ok(hostinfo), scheme |-> scheme, hostinfo |-> hostinfo ]
        @@ uri_path_part(s, e)

\* apr_uri_parse(pool, uri, &uptr): [ok, scheme, hostinfo, path, query, fragment]
apr_uri_parse(uri) ==
    LET c == FirstOf(uri, 1, { ":", "/", "?", "#" })
        at(i) == IF i <= Len(uri) THEN uri[i] ELSE ""
    IN  IF at(1) = "/"
        THEN IF at(2) = "/" /\ at(3) # "/"
             THEN uri_authority_part(uri, 3, NULL)
             ELSE [ ok |-> TRUE, scheme |-> NULL, hostinfo |-> NULL ]
                  @@ uri_path_part(uri, 1)
        ELSE IF c > 1 /\ at(c) = ":" /\ at(c + 1) = "/" /\ at(c + 2) = "/"
        THEN uri_authority_part(uri, c + 3, Slice(uri, 1, c))
        ELSE [ ok |-> TRUE, scheme |-> NULL, hostinfo |-> NULL ]
             @@ uri_path_part(uri, 1)

\* apr_uri_unparse(pool, &uri, APR_URI_UNP_OMITSITEPART)
apr_uri_unparse_omitsitepart(uri) ==
    (IF uri.path = NULL THEN <<>> ELSE uri.path)
    \o (IF uri.query = NULL THEN <<>> ELSE <<"?">> \o uri.query)
    \o (IF uri.fragment = NULL THEN <<>> ELSE <<"#">> \o uri.fragment)

-----------------------------------------------------------------------------
(* The push candidate builder *)

H2_PUSH_NONE == "H2_PUSH_NONE"
H2_PUSH_DEFAULT == "H2_PUSH_DEFAULT"
H2_PUSH_HEAD == "H2_PUSH_HEAD"
H2_PUSH_FAST_LOAD == "H2_PUSH_FAST_LOAD"

PushPolicies == { H2_PUSH_NONE, H2_PUSH_DEFAULT, H2_PUSH_HEAD, H2_PUSH_FAST_LOAD }

policy_str(policy) ==
    CASE policy = H2_PUSH_NONE -> <<"n", "o", "n", "e">>
      [] policy = H2_PUSH_FAST_LOAD -> <<"f", "a", "s", "t", "-", "l", "o", "a", "d">>
      [] policy = H2_PUSH_HEAD -> <<"h", "e", "a", "d">>
      [] OTHER -> <<"d", "e", "f", "a", "u", "l", "t">>

s_rel == <<"r", "e", "l">>
s_preload == <<"p", "r", "e", "l", "o", "a", "d">>
s_nopush == <<"n", "o", "p", "u", "s", "h">>
s_critical == <<"c", "r", "i", "t", "i", "c", "a", "l">>

\* same_authority without its comparison of the hostinfo
same_authority_scheme_only(r, uri) ==
    ~(uri.scheme # NULL /\ uri.scheme # r.scheme)

\* h2_request_create(0, pool, method, scheme, authority, path, headers)
h2_request_create(method, scheme, authority, path, headers) ==
    [ null |-> FALSE, method |-> method, scheme |-> scheme,
      authority |-> authority, path |-> path, headers |-> headers ]

same_authority(r, uri) ==
    IF uri.scheme # NULL /\ uri.scheme # r.scheme THEN FALSE
    ELSE IF uri.hostinfo # NULL /\ uri.hostinfo # r.authority THEN FALSE
    ELSE TRUE

\* the header names set_push_header lets through
PushHeaderNames ==
    { <<"U", "s", "e", "r", "-", "A", "g", "e", "n", "t">>,
      <<"A", "c", "c", "e", "p", "t">>,
      <<"A", "c", "c", "e", "p", "t", "-", "E", "n", "c", "o", "d", "i", "n", "g">>,
      <<"A", "c", "c", "e", "p", "t", "-", "L", "a", "n", "g", "u", "a", "g", "e">>,
      <<"C", "a", "c", "h", "e", "-", "C", "o", "n", "t", "r", "o", "l">> }

\* H2_HD_MATCH_LIT comparing the first strlen(lit) characters only
H2_HD_MATCH_LIT_prefix(lit, key) ==
    Len(key) >= Len(lit) /\ LowerStr(SubSeq(key, 1, Len(lit))) = LowerStr(lit)

\* H2_HD_MATCH_LIT(lit, key, klen): the lengths agree and the names are equal
\* ignoring case
H2_HD_MATCH_LIT(lit, key) == Len(key) = Len(lit) /\ LowerStr(key) = LowerStr(lit)

set_push_header(headers, key, value) ==
    IF \E lit \in PushHeaderNames : H2_HD_MATCH_LIT(lit, key)
    THEN apr_table_setn(headers, key, value)
    ELSE headers

RECURSIVE push_headers(_, _)
\* apr_table_do(set_push_header, headers, req->headers, NULL), the first n
\* entries done
push_headers(reqheaders, n) ==
    IF n = 0 THEN <<>>
    ELSE set_push_header(push_headers(reqheaders, n - 1),
                         reqheaders[n][1], reqheaders[n][2])

has_param(ctx, param) == apr_table_get(ctx.params, param) # NULL

\* the index (from 1) of the first occurrence of rel in val; 0 if none
ap_strstr_c(val, rel) ==
    LET hits == { i \in 1..(Len(val) - Len(rel) + 1) :
                     SubSeq(val, i, i + Len(rel) - 1) = rel }
    IN  IF hits = {} THEN 0 ELSE CHOOSE i \in hits : \A j \in hits : i <= j

\* has_relation without its tests of the characters around the occurrence
has_relation_any_occurrence(ctx, rel) ==
    LET val == apr_table_get(ctx.params, s_rel)
    IN  val # NULL /\ ap_strstr_c(val, rel) > 0

has_relation(ctx, rel) ==
    LET val == apr_table_get(ctx.params, s_rel)
        s == ap_strstr_c(val, rel)
        after == s + Len(rel)
    IN  IF val = NULL THEN FALSE
        ELSE IF val = rel THEN TRUE
        ELSE IF s > 0 /\ (s = 1 \/ val[s - 1] = " ")
        THEN after > Len(val) \/ val[after] = " "
        ELSE FALSE

\* add_push giving the candidate the scheme and hostinfo of the link target
add_push_target_site(ctx) ==
    Bind(apr_uri_parse(ctx.link), LAMBDA uri :
    LET path == apr_uri_unparse_omitsitepart(uri)
        method == IF ctx.push_policy = H2_PUSH_HEAD THEN s_HEAD ELSE s_GET
        headers == push_headers(ctx.req.headers, Len(ctx.req.headers))
        push == [ req |-> h2_request_create(method, uri.scheme,
                                            uri.hostinfo, path, headers),
                  priority |-> IF has_param(ctx, s_critical)
                               THEN "H2_DEPENDANT_BEFORE" ELSE "NULL" ]
    IN  IF /\ has_relation(ctx, s_preload)
           /\ ~has_param(ctx, s_nopush)
           /\ uri.ok
           /\ uri.path # NULL
           /\ same_authority(ctx.req, uri)
        THEN [ ctx EXCEPT !.pushes = Array(@.elts \o <<push>>) ]
        ELSE ctx )

\* add_push whose switch on the push policy always takes the default branch
add_push_always_get(ctx) ==
    Bind(apr_uri_parse(ctx.link), LAMBDA uri :
    LET path == apr_uri_unparse_omitsitepart(uri)
        method == s_GET
        headers == push_headers(ctx.req.headers, Len(ctx.req.headers))
        push == [ req |-> h2_request_create(method, ctx.req.scheme,
                                            ctx.req.authority, path, headers),
                  priority |-> IF has_param(ctx, s_critical)
                               THEN "H2_DEPENDANT_BEFORE" ELSE "NULL" ]
    IN  IF /\ has_relation(ctx, s_preload)
           /\ ~has_param(ctx, s_nopush)
           /\ uri.ok
           /\ uri.path # NULL
           /\ same_authority(ctx.req, uri)
        THEN [ ctx EXCEPT !.pushes = Array(@.elts \o <<push>>) ]
        ELSE ctx )

add_push(ctx) ==
    Bind(apr_uri_parse(ctx.link), LAMBDA uri :
    LET path == apr_uri_unparse_omitsitepart(uri)
        method == IF ctx.push_policy = H2_PUSH_HEAD THEN s_HEAD ELSE s_GET
        headers == push_headers(ctx.req.headers, Len(ctx.req.headers))
        push == [ req |-> h2_request_create(method, ctx.req.scheme,
                                            ctx.req.authority, path, headers),
                  priority |-> IF has_param(ctx, s_critical)
                               THEN "H2_DEPENDANT_BEFORE" ELSE "NULL" ]
    IN  IF /\ has_relation(ctx, s_preload)
           /\ ~has_param(ctx, s_nopush)
           /\ uri.ok
           /\ uri.path # NULL
           /\ same_authority(ctx.req, uri)
        THEN [ ctx EXCEPT !.pushes = Array(@.elts \o <<push>>) ]
        ELSE ctx )

RECURSIVE read_params(_)
\* while (read_param(ctx)) { }
read_params(ctx) ==
    Bind(read_param(ctx), LAMBDA r : IF r.ok THEN read_params(r.ctx) ELSE r.ctx)

RECURSIVE inspect_links(_)
\* the while loop of inspect_link
inspect_links(ctx) ==
    Bind(read_link(ctx), LAMBDA l :
        IF ~l.ok THEN l.ctx
        ELSE Bind(read_sep(add_push(read_params(init_params(l.ctx)))), LAMBDA s :
                 IF s.ok THEN inspect_links(s.ctx) ELSE s.ctx ))

inspect_link(ctx, s) ==
    inspect_links([ ctx EXCEPT !.s = s, !.slen = Len(s), !.i = 0 ])

s_link == <<"l", "i", "n", "k">>

head_iter(ctx, key, value) ==
    IF LowerStr(key) = s_link THEN inspect_link(ctx, value) ELSE ctx

RECURSIVE head_iters(_, _, _)
\* apr_table_do(head_iter, &ctx, res->headers, NULL), the first n entries done
head_iters(ctx, headers, n) ==
    IF n = 0 THEN ctx
    ELSE head_iter(head_iters(ctx, headers, n - 1), headers[n][1], headers[n][2])

s_push_policy == <<"p", "u", "s", "h", "-", "p", "o", "l", "i", "c", "y">>

NullRequest ==
    [ null |-> TRUE, method |-> NULL, scheme |-> NULL, authority |-> NULL,
      path |-> NULL, headers |-> <<>> ]

\* the link_ctx of h2_push_collect: memset(&ctx, 0, sizeof(ctx)) and the
\* assignments of req and push_policy
collect_ctx(r, policy) ==
    [ req |-> r, push_policy |-> policy, pushes |-> NullArray,
      s |-> <<>>, slen |-> 0, i |-> 0, link |-> NULL, params |-> <<>> ]

\* no inspect_link is under way
NoScan == [ pc |-> "none", ctx |-> collect_ctx(NullRequest, H2_PUSH_NONE) ]

\* h2_push_collect(p, req, push_policy, res): [pushes, headers], the array
\* returned and res->headers as the call leaves them.  A NULL req is the
\* request NullRequest; a NULL res->headers is not modelled.
push_collect(r, policy, headers) ==
    IF ~r.null /\ policy # H2_PUSH_NONE
        THEN Bind(head_iters(collect_ctx(r, policy), headers, Len(headers)), LAMBDA ctx :
                 [ pushes |-> ctx.pushes,
                   headers |-> IF ~ctx.pushes.null
                               THEN apr_table_setn(headers, s_push_policy,
                                                   policy_str(policy))
                               ELSE headers ])
        ELSE [ pushes |-> NullArray, headers |-> headers ]

-----------------------------------------------------------------------------
(* The calls on a session's diary *)

\* a push of path for https://example.com with no priority
PushOf(path) ==
    [ req |-> h2_request_create(s_GET, s_https, s_example_com, path, <<>>),
      priority |-> "NULL" ]

\* the candidates the diary is fed; "/ab" and "/bA" have the same
\* apr_hashfunc_default value
DiaryPaths ==
    { <<"/", "a">>, <<"/", "b">>, <<"/", "a", "b">>, <<"/", "b", "A">> }

DiaryPushes == { PushOf(p) : p \in DiaryPaths }

RECURSIVE SeqsUpTo(_, _)
\* the sequences over S of length at most n
SeqsUpTo(S, n) ==
    IF n = 0 THEN { <<>> }
    ELSE LET T == SeqsUpTo(S, n - 1)
         IN  T \cup { Append(t, x) : t \in { u \in T : Len(u) = n - 1 }, x \in S }

PushArrays == { NullArray } \cup { Array(e) : e \in SeqsUpTo(DiaryPushes, MaxPushes) }

Running == op \notin {"init", "hang", "trap"}

Init ==
    /\ push_diary = NullDiary
    /\ op = "init"
    /\ confN = 0
    /\ pushes = NullArray
    /\ npushes = NullArray
    /\ before = NullDiary
    /\ digest = NoDigest
    /\ link_ctx = NoScan
    /\ req = NullRequest
    /\ push_policy = H2_PUSH_DEFAULT
    /\ res_headers = <<>>
    /\ link_values = <<>>

\* session setup: h2_push_diary_create(pool, N)
h2_push_diary_create(N) ==
    /\ op = "init"
    /\ \E dtype \in DigestTypes : push_diary' = diary_create(dtype, N)
    /\ op' = "create"
    /\ confN' = N
    /\ before' = push_diary
    /\ UNCHANGED <<link_ctx, pushes, npushes, digest, req, push_policy, res_headers, link_values>>

\* h2_push_diary_create(pool, N) in a build whose signed overflow traps
h2_push_diary_create_trap(N) ==
    /\ op = "init"
    /\ N > 0
    /\ ceil_power_of_2_overflows(N)
    /\ op' = "trap"
    /\ confN' = N
    /\ before' = push_diary
    /\ UNCHANGED <<link_ctx, push_diary, pushes, npushes, digest, req, push_policy, res_headers,
                   link_values>>

\* h2_push_diary_update(session, ps)
h2_push_diary_update(ps) ==
    /\ Running
    /\ \E r \in { diary_update(push_diary, ps) } :
           /\ push_diary' = r.diary
           /\ npushes' = r.npushes
           /\ op' = IF r.hang THEN "hang" ELSE "update"
    /\ pushes' = ps
    /\ before' = push_diary
    /\ digest' = NoDigest
    /\ UNCHANGED <<link_ctx, confN, req, push_policy, res_headers, link_values>>

Next ==
    \/ \E N \in -1..MaxConfigN : h2_push_diary_create(N)
    \/ \E ps \in PushArrays : h2_push_diary_update(ps)

Spec == Init /\ [][Next]_vars

\* The diary's authority is a field other files of the module set: it is
\* bound once to the authority of the session's connection.
h2_push_diary_bind_authority(authority) ==
    /\ Running
    /\ ~push_diary.null
    /\ push_diary.authority = NULL
    /\ push_diary' = [ push_diary EXCEPT !.authority = authority ]
    /\ op' = "bind"
    /\ before' = push_diary
    /\ pushes' = NullArray
    /\ npushes' = NullArray
    /\ digest' = NoDigest
    /\ UNCHANGED <<link_ctx, confN, req, push_policy, res_headers, link_values>>

\* h2_push_diary_digest_get emptying the diary it reads
h2_push_diary_digest_get_clears(maxP, authority, fails) ==
    /\ Running
    /\ ~push_diary.null
    /\ digest' \in diary_digest_get(push_diary, maxP, authority, fails)
    /\ op' = "digest_get"
    /\ before' = push_diary
    /\ push_diary' = [ push_diary EXCEPT !.entries = <<>> ]
    /\ pushes' = NullArray
    /\ npushes' = NullArray
    /\ UNCHANGED <<link_ctx, confN, req, push_policy, res_headers, link_values>>

\* h2_push_diary_digest_get(session->push_diary, pool, maxP, authority, ...)
\* with apr_pcalloc failing the requests fails for a larger buffer
h2_push_diary_digest_get(maxP, authority, fails) ==
    /\ Running
    /\ ~push_diary.null
    /\ digest' \in diary_digest_get(push_diary, maxP, authority, fails)
    /\ op' = "digest_get"
    /\ before' = push_diary
    /\ pushes' = NullArray
    /\ npushes' = NullArray
    /\ UNCHANGED <<link_ctx, push_diary, confN, req, push_policy, res_headers, link_values>>

\* h2_push_diary_digest_get(..., maxP, ...) in a build whose signed overflow
\* traps: ceil_power_of_2(nelts) or ceil_power_of_2(maxP) aborts the call
h2_push_diary_digest_get_trap(maxP) ==
    /\ Running
    /\ ~push_diary.null
    /\ \/ ceil_power_of_2_overflows(Len(push_diary.entries))
       \/ ceil_power_of_2_overflows(maxP)
    /\ op' = "trap"
    /\ before' = push_diary
    /\ UNCHANGED <<link_ctx, push_diary, confN, pushes, npushes, digest, req, push_policy,
                   res_headers, link_values>>

\* the authority arguments of a digest request
DigestAuthorities == { NULL, <<"*">>, s_example_com, s_other_com }

\* the values of maxP beyond MaxMaxP that are tried, on the calls that encode
\* no hash: the diary is empty or the authority is out of its scope
WideMaxP ==
    { INT_MIN, -2, 5, 8, 9, 1000, 65536, 65537,
      Pow2(30) - 1, Pow2(30), Pow2(30) + 1, INT_MAX }

EncodesNoHash(authority) ==
    \/ Len(push_diary.entries) = 0
    \/ ~digest_authority_matches(push_diary, authority)

\* arrays of at most one push
SinglePushArrays == { a \in PushArrays : Len(a.elts) <= 1 }

NextDigest ==
    \/ \E N \in 0..MaxConfigN : h2_push_diary_create(N)
    \/ \E ps \in SinglePushArrays : h2_push_diary_update(ps)
    \/ h2_push_diary_bind_authority(s_example_com)
    \/ \E maxP \in -1..MaxMaxP, authority \in DigestAuthorities :
          h2_push_diary_digest_get(maxP, authority, {})
    \/ \E maxP \in WideMaxP, authority \in DigestAuthorities :
          /\ EncodesNoHash(authority)
          /\ \/ h2_push_diary_digest_get(maxP, authority, {})
             \/ h2_push_diary_digest_get_trap(maxP)

\* a session that fills its diary and exports digests of it; none of its
\* digests fills the first buffer, so no larger one is asked for
SpecDigest == Init /\ [][NextDigest]_vars

\* entry i of a diary filled for seed: hashes whose upper bits differ, in
\* no order
GrowHash(i, seed) ==
    << ((i * 37) % 191) * 257 + seed, (i * 8191 + seed) % 65536, i, seed >>

\* a SHA256 diary created for MaxGrowEntries entries, bound to example.com
\* and holding n entries
GrowDiary(n, seed) ==
    [ diary_create("H2_PUSH_DIGEST_SHA256", MaxGrowEntries) EXCEPT
        !.authority = s_example_com,
        !.entries = [ i \in 1..n |-> GrowHash(i, seed) ] \o <<>> ]

\* a session whose diary has been filled by many updates
InitGrow ==
    /\ \E n \in (MaxGrowEntries - 3)..MaxGrowEntries, seed \in 0..MaxGrowSeed :
           /\ push_diary = GrowDiary(n, seed)
           /\ before = GrowDiary(n - 1, seed)
    /\ op = "update"
    /\ confN = MaxGrowEntries
    /\ pushes = NullArray
    /\ npushes = NullArray
    /\ digest = NoDigest
    /\ link_ctx = NoScan
    /\ req = NullRequest
    /\ push_policy = H2_PUSH_DEFAULT
    /\ res_headers = <<>>
    /\ link_values = <<>>

\* which of the requests for a larger buffer apr_pcalloc fails
AllocOutcomes == SUBSET (1..MaxAllocs)

\* maxP that give 8, 21 and 22 fixed bits
GrowMaxP == { Pow2(8), Pow2(21), Pow2(22) }

\* the export that follows the fill, for each maxP and allocation outcome
NextDigestGrow ==
    \E maxP \in GrowMaxP, authority \in { NULL, s_example_com, s_other_com },
       fails \in AllocOutcomes :
        /\ op = "update"
        /\ h2_push_diary_digest_get(maxP, authority, fails)

\* digests long enough to outgrow the first buffer
SpecDigestGrow == InitGrow /\ [][NextDigestGrow]_vars

\* 2^k - 1, 2^k, 2^k + 1 for the k up to 30, and INT_MAX
NearPowersOf2 ==
    UNION { { Pow2(k) - 1, Pow2(k), Pow2(k) + 1 } : k \in 0..30 } \cup { INT_MAX }

CreateSizes == (-1..MaxSmallN) \cup NearPowersOf2

NextCreate ==
    \/ \E N \in CreateSizes : h2_push_diary_create(N)
    \/ \E N \in CreateSizes : h2_push_diary_create_trap(N)

\* a session's setup with any configured diary size
SpecCreate == Init /\ [][NextCreate]_vars

\* configured sizes up to the largest an int holds
WideSizes == { 1, 3, Pow2(30), Pow2(30) + 1, INT_MAX }

NextCreateUpdate ==
    \/ \E N \in WideSizes : h2_push_diary_create(N)
    \/ \E N \in WideSizes : h2_push_diary_create_trap(N)
    \/ \E ps \in PushArrays : h2_push_diary_update(ps)

\* a session set up with a diary of any size, which is then updated
SpecCreateUpdate == Init /\ [][NextCreateUpdate]_vars

-----------------------------------------------------------------------------
(* Link headers for h2_push_collect *)

\* a link-value is written down as [target, params]; a parameter as
\* [name, value, form], the form being how the value is spelled
Param(name, value, form) == [ name |-> name, value |-> value, form |-> form ]

LinkValue(target, params) == [ target |-> target, params |-> params ]

\* the text of a parameter: ;name, ;name=value or ;name="value"
ParamText(p) ==
    <<";", " ">> \o p.name
    \o (CASE p.form = "none" -> <<>>
          [] p.form = "token" -> <<"=">> \o p.value
          [] p.form = "spaced" -> <<" ", "=", "\t">> \o p.value
          [] p.form = "quoted" -> <<"=", "\"">> \o p.value \o <<"\"">>)

RECURSIVE ParamsText(_)
ParamsText(ps) ==
    IF ps = <<>> THEN <<>> ELSE ParamText(Head(ps)) \o ParamsText(Tail(ps))

\* the text of a link-value: <target> and its parameters
LinkValueText(lv) == <<"<">> \o lv.target \o <<">">> \o ParamsText(lv.params)

RECURSIVE FieldText(_)
\* the text of a header field: its link-values, separated by commas
FieldText(lvs) ==
    IF Len(lvs) = 1 THEN LinkValueText(lvs[1])
    ELSE LinkValueText(Head(lvs)) \o <<",", " ">> \o FieldText(Tail(lvs))

p_rel_preload == Param(s_rel, s_preload, "token")
p_nopush == Param(s_nopush, <<>>, "none")

\* the rel parameters of a link-value: one relation type or a quoted list
RelParams ==
    { p_rel_preload,
      Param(s_rel, s_preload, "quoted"),
      Param(s_rel, s_preload, "spaced"),
      Param(<<"R", "e", "l">>, s_preload, "token"),
      Param(s_rel, <<"p", "r", "e", "l", "o", "a", "d", " ", "x">>, "quoted"),
      Param(s_rel, <<"x", " ", "p", "r", "e", "l", "o", "a", "d">>, "quoted"),
      Param(s_rel, <<"x", " ", "p", "r", "e", "l", "o", "a", "d", " ", "y">>, "quoted"),
      Param(s_rel, <<"p", "r", "e", "l", "o", "a", "d", "e", "d", " ", "p", "r", "e", "l", "o", "a", "d">>, "quoted"),
      Param(s_rel, <<"p", "r", "e", "l", "o", "a", "d", "e", "d">>, "token"),
      Param(s_rel, <<"x", "p", "r", "e", "l", "o", "a", "d">>, "quoted"),
      Param(s_rel, <<"x", " ", "p", "r", "e", "l", "o", "a", "d", "e", "d">>, "quoted"),
      Param(s_rel, <<"n", "e", "x", "t">>, "token") }

\* the parameters that are not rel
OtherParams ==
    { p_nopush,
      Param(s_nopush, <<"1">>, "token"),
      Param(<<"N", "o", "P", "u", "s", "h">>, <<>>, "none"),
      Param(s_critical, <<>>, "none"),
      Param(s_critical, <<"1">>, "token"),
      Param(<<"a", "s">>, <<"p", "r", "e", "l", "o", "a", "d", ";", " ", "n", "o", "p", "u", "s", "h">>, "quoted") }

\* link targets: with and without scheme, authority and path
s_style_css == <<"/", "s", "t", "y", "l", "e", ".", "c", "s", "s">>
s_app_js == <<"/", "a", "p", "p", ".", "j", "s">>
s_other_x == <<"h", "t", "t", "p", "s", ":", "/", "/", "o", "t", "h", "e", "r", ".", "c", "o", "m", "/", "x">>

Targets ==
    { s_style_css,
      s_app_js,
      s_other_x,
      <<"h", "t", "t", "p", "s", ":", "/", "/", "e", "x", "a", "m", "p", "l", "e", ".", "c", "o", "m", "/", "a">>,
      <<"h", "t", "t", "p", ":", "/", "/", "e", "x", "a", "m", "p", "l", "e", ".", "c", "o", "m", "/", "a">>,
      <<"/", "/", "e", "x", "a", "m", "p", "l", "e", ".", "c", "o", "m", "/", "a">>,
      <<"/", "/", "o", "t", "h", "e", "r", ".", "c", "o", "m", "/", "x">>,
      <<"h", "t", "t", "p", "s", ":", "/", "/", "e", "x", "a", "m", "p", "l", "e", ".", "c", "o", "m">>,
      <<"/", "a", "?", "b", "#", "c">>,
      <<"h", "t", "t", "p", "s", ":", "/", "/", "e", "x", "a", "m", "p", "l", "e", ".", "c", "o", "m", ":", "4", "4", "3", "/", "a">>,
      <<"/", "/", "e", "x", "a", "m", "p", "l", "e", ".", "c", "o", "m", ":", "x", "/", "a">>,
      <<"a", "/", "b">>,
      <<>> }

\* the request headers of the originating requests
RequestHeaders ==
    << <<<<"u", "s", "e", "r", "-", "a", "g", "e", "n", "t">>, <<"c", "u", "r", "l">>>>,
       <<<<"C", "o", "o", "k", "i", "e">>, <<"a", "=", "1">>>>,
       <<<<"A", "c", "c", "e", "p", "t">>, <<"*", "/", "*">>>> >>

Request(scheme, authority) ==
    h2_request_create(s_GET, scheme, authority, <<"/">>, RequestHeaders)

Requests ==
    { NullRequest } \cup
    { Request(sc, au) : sc \in { s_https, s_http }, au \in { s_example_com, s_other_com } }

s_Link == <<"L", "i", "n", "k">>

\* a response whose Link fields hold the link-values of fields; another
\* header comes first
Response(fields) ==
    << <<<<"X", "-", "L", "i", "n", "k">>, <<"<", "/", "d", "e", "c", "o", "y", ">", ";", " ", "r", "e", "l", "=", "p", "r", "e", "l", "o", "a", "d">>>> >>
    \o [ i \in 1..Len(fields) |->
           <<IF i = 1 THEN s_Link ELSE s_link, FieldText(fields[i])>> ]

\* the calls of h2_push_collect that are tried: [req, push_policy, fields]
CollectInput(r, policy, fields) ==
    [ req |-> r, push_policy |-> policy, fields |-> fields ]

\* one link-value to a same-authority path, with up to MaxParams parameters
ParamInputs ==
    { CollectInput(Request(s_https, s_example_com), H2_PUSH_DEFAULT,
                   << <<LinkValue(s_style_css, ps)>> >>) :
        ps \in SeqsUpTo(RelParams \cup OtherParams, MaxParams) }

\* one preload link-value to each target, for each request and policy
TargetInputs ==
    { CollectInput(r, policy, << <<LinkValue(t, <<p_rel_preload>>)>> >>) :
        r \in Requests, policy \in PushPolicies, t \in Targets }

\* the link-values of the headers with several of them
ListedLinkValues ==
    { LinkValue(t, ps) :
        t \in { s_style_css, s_app_js, s_other_x },
        ps \in { <<p_rel_preload>>, <<p_rel_preload, p_nopush>>, <<>>,
                 <<p_rel_preload, Param(s_critical, <<>>, "none")>> } }

\* the ways to cut a sequence into one field or two
Fields(lvs) ==
    { <<lvs>> } \cup
    { <<SubSeq(lvs, 1, k), SubSeq(lvs, k + 1, Len(lvs))>> : k \in 1..(Len(lvs) - 1) }

\* Link: </style.css>; rel=preload, </app.js>; rel=preload; nopush,
\*       <https://other.com/x>; rel=preload
ExampleLinkValues ==
    << LinkValue(s_style_css, <<p_rel_preload>>),
       LinkValue(s_app_js, <<p_rel_preload, p_nopush>>),
       LinkValue(s_other_x, <<p_rel_preload>>) >>

ListInputs ==
    { CollectInput(Request(s_https, s_example_com), H2_PUSH_DEFAULT, f) :
        f \in UNION { Fields(lvs) :
                        lvs \in (SeqsUpTo(ListedLinkValues, MaxLinkValues)
                                 \cup { ExampleLinkValues }) \ { <<>> } } }

\* request headers: the five names set_push_header knows in several
\* spellings, and names that are not among them
HeaderEntries ==
    { <<<<"u", "s", "e", "r", "-", "a", "g", "e", "n", "t">>, <<"c", "u", "r", "l">>>>,
      <<<<"A", "c", "c", "e", "p", "t">>, <<"*", "/", "*">>>>,
      <<<<"A", "C", "C", "E", "P", "T", "-", "E", "N", "C", "O", "D", "I", "N", "G">>, <<"g", "z", "i", "p">>>>,
      <<<<"A", "c", "c", "e", "p", "t", "-", "L", "a", "n", "g", "u", "a", "g", "e">>, <<"e", "n">>>>,
      <<<<"c", "a", "c", "h", "e", "-", "c", "o", "n", "t", "r", "o", "l">>, <<"n", "o", "-", "c", "a", "c", "h", "e">>>>,
      <<<<"C", "o", "o", "k", "i", "e">>, <<"a", "=", "1">>>>,
      <<<<"A", "u", "t", "h", "o", "r", "i", "z", "a", "t", "i", "o", "n">>, <<"B", "a", "s", "i", "c", " ", "x">>>>,
      <<<<"A", "c", "c", "e", "p", "t", "-", "C", "h", "a", "r", "s", "e", "t">>, <<"u", "t", "f", "-", "8">>>>,
      <<<<"A", "c", "c", "e", "p">>, <<"x">>>>,
      <<<<"X", "-", "U", "s", "e", "r", "-", "A", "g", "e", "n", "t">>, <<"y">>>>,
      <<<<"C", "a", "c", "h", "e", "-", "C", "o", "n", "t", "r", "o", "l", "-", "X">>, <<"z">>>> }

\* the header tables of a request: h2_request's headers hold a name once
HeaderTables ==
    { t \in SeqsUpTo(HeaderEntries, MaxHeaders) :
        \A i, j \in 1..Len(t) : i # j => LowerStr(t[i][1]) # LowerStr(t[j][1]) }

\* one preload link-value, for a request with each of the header tables
HeaderInputs ==
    { CollectInput(h2_request_create(s_GET, s_https, s_example_com, <<"/">>, t),
                   policy, << <<LinkValue(s_style_css, <<p_rel_preload>>)>> >>) :
        t \in HeaderTables, policy \in { H2_PUSH_DEFAULT, H2_PUSH_HEAD } }

\* the calls of h2_push_collect that are tried, by what they vary
CollectInputs == << ParamInputs, TargetInputs, ListInputs, HeaderInputs >>

\* a response arrives for a request: the state before h2_push_collect
InitCollect ==
    /\ push_diary = NullDiary
    /\ op = "init"
    /\ confN = 0
    /\ pushes = NullArray
    /\ npushes = NullArray
    /\ before = NullDiary
    /\ digest = NoDigest
    /\ link_ctx = NoScan
    /\ \E k \in DOMAIN CollectInputs : \E input \in CollectInputs[k] :
           /\ req = input.req
           /\ push_policy = input.push_policy
           /\ link_values = input.fields
           /\ res_headers = Response(input.fields)

\* pushes = h2_push_collect(stream->pool, req, push_policy, res)
h2_push_collect ==
    /\ op = "init"
    /\ \E r \in { push_collect(req, push_policy, res_headers) } :
           /\ pushes' = r.pushes
           /\ res_headers' = r.headers
    /\ op' = "collect"
    /\ UNCHANGED <<link_ctx, push_diary, confN, npushes, before, digest, req, push_policy,
                   link_values>>

NextCollect == h2_push_collect

\* the push candidates of a response
SpecCollect == InitCollect /\ [][NextCollect]_vars

-----------------------------------------------------------------------------
(* Link header texts, well-formed or not *)

\* </a>; rel=preload and </b>; rel=preload
s_a_preload == <<"<", "/", "a", ">", ";", " ", "r", "e", "l", "=", "p", "r", "e", "l", "o", "a", "d">>
s_b_preload == <<"<", "/", "b", ">", ";", " ", "r", "e", "l", "=", "p", "r", "e", "l", "o", "a", "d">>
\* ; rel="preload with no closing quote
s_rel_quote_preload == <<";", " ", "r", "e", "l", "=", "\"", "p", "r", "e", "l", "o", "a", "d">>

\* what the header texts are made of
Pieces ==
    { s_a_preload, s_b_preload, s_rel_quote_preload,
      <<"<", "/", "a", ">">>, <<"<">>, <<";">>, <<",">>, <<" ">>,
      <<"\"">> }

RECURSIVE Flatten(_)
Flatten(fields) ==
    IF fields = <<>> THEN <<>> ELSE Head(fields) \o Flatten(Tail(fields))

RECURSIVE TextsUpTo(_)
\* the texts made of at most n pieces
TextsUpTo(n) ==
    IF n = 0 THEN { <<>> }
    ELSE LET ts == TextsUpTo(n - 1)
         IN  ts \cup { t \o p : t \in ts, p \in Pieces }

\* the values of the Link field that are tried
HeaderTexts == TextsUpTo(MaxPieces)

\* the values of the Link field whose scan is followed step by step
ScanTexts == TextsUpTo(MaxScanPieces)

\* a response with the Link field text arrives for a request of
\* https://example.com
InitCollectText ==
    /\ push_diary = NullDiary
    /\ op = "init"
    /\ confN = 0
    /\ pushes = NullArray
    /\ npushes = NullArray
    /\ before = NullDiary
    /\ digest = NoDigest
    /\ link_ctx = NoScan
    /\ req = Request(s_https, s_example_com)
    /\ push_policy = H2_PUSH_DEFAULT
    /\ link_values = <<>>
    /\ \E text \in HeaderTexts : res_headers = << <<s_Link, text>> >>

\* the push candidates of a response whose Link field is any text
SpecCollectText == InitCollectText /\ [][NextCollect]_vars

-----------------------------------------------------------------------------
(* inspect_link, one step of its loops at a time *)

\* h2_push_collect has set up its link_ctx for a request of
\* https://example.com; no header of the response has been looked at
InitScan ==
    /\ push_diary = NullDiary
    /\ op = "init"
    /\ confN = 0
    /\ pushes = NullArray
    /\ npushes = NullArray
    /\ before = NullDiary
    /\ digest = NoDigest
    /\ req = Request(s_https, s_example_com)
    /\ push_policy = H2_PUSH_DEFAULT
    /\ link_values = <<>>
    /\ res_headers = <<>>
    /\ link_ctx = [ pc |-> "head_iter", ctx |-> collect_ctx(req, push_policy) ]

ScanFrame ==
    UNCHANGED <<push_diary, confN, pushes, npushes, before, digest, req, push_policy,
                link_values>>

\* head_iter calls inspect_link(ctx, value, strlen(value)) for the Link
\* field of the response: ctx->s, ctx->slen and ctx->i are set
scan_inspect_link ==
    /\ link_ctx.pc = "head_iter"
    /\ \E text \in ScanTexts :
           /\ res_headers' = << <<s_Link, text>> >>
           /\ link_ctx' = [ pc |-> "read_link",
                            ctx |-> [ link_ctx.ctx EXCEPT
                                        !.s = text, !.slen = Len(text), !.i = 0 ] ]
    /\ op' = "inspect_link"
    /\ ScanFrame

\* while (read_link(ctx)) { init_params(ctx); ...
scan_read_link ==
    /\ link_ctx.pc = "read_link"
    /\ \E l \in { read_link(link_ctx.ctx) } :
           link_ctx' = IF l.ok THEN [ pc |-> "read_param", ctx |-> init_params(l.ctx) ]
                       ELSE [ pc |-> "done", ctx |-> l.ctx ]
    /\ op' = "read_link"
    /\ UNCHANGED res_headers
    /\ ScanFrame

\* while (read_param(ctx)) { }
scan_read_param ==
    /\ link_ctx.pc = "read_param"
    /\ \E p \in { read_param(link_ctx.ctx) } :
           link_ctx' = [ pc |-> IF p.ok THEN "read_param" ELSE "add_push", ctx |-> p.ctx ]
    /\ op' = "read_param"
    /\ UNCHANGED res_headers
    /\ ScanFrame

\* add_push(ctx)
scan_add_push ==
    /\ link_ctx.pc = "add_push"
    /\ link_ctx' = [ pc |-> "read_sep", ctx |-> add_push(link_ctx.ctx) ]
    /\ op' = "add_push"
    /\ UNCHANGED res_headers
    /\ ScanFrame

\* if (!read_sep(ctx)) break;
scan_read_sep ==
    /\ link_ctx.pc = "read_sep"
    /\ \E p \in { read_sep(link_ctx.ctx) } :
           link_ctx' = [ pc |-> IF p.ok THEN "read_link" ELSE "done", ctx |-> p.ctx ]
    /\ op' = "read_sep"
    /\ UNCHANGED res_headers
    /\ ScanFrame

\* the steps of inspect_link's loops
ScanStep == scan_read_link \/ scan_read_param \/ scan_add_push \/ scan_read_sep

NextScan == scan_inspect_link \/ ScanStep

\* inspect_link is inside its loops
Scanning == link_ctx.pc \in { "read_link", "read_param", "add_push", "read_sep" }

\* inspect_link, once called, runs on: nothing holds a step of it back.
\* This is weak fairness of ScanStep, whose steps are enabled exactly while
\* Scanning holds: either the scan is over again and again, or it steps
\* again and again.
ScanFairness == []<>(~Scanning) \/ []<><<ScanStep>>_vars

SpecScan == InitScan /\ [][NextScan]_vars /\ ScanFairness

-----------------------------------------------------------------------------
(* Claims about the push diary *)

\* the hashes a diary holds
Hashes(diary) == Range(diary.entries)

\* the last call was an h2_push_diary_update on a session with a diary and
\* an array of pushes
Updated == op = "update" /\ ~before.null /\ ~pushes.null

\* the diary of the last update call after its first k candidates
DiaryAt(k) == update_loop(before, pushes, k).diary

\* the hash of the k-th candidate of the last update call
HashAt(k) == dcalc(before, pushes.elts[k])

\* the k-th candidate's hash was not in the diary when it was processed
NewAt(k) == HashAt(k) \notin Hashes(DiaryAt(k - 1))

RECURSIVE NewUpTo(_)
\* the candidates among the first k whose hash was new when processed
NewUpTo(k) ==
    IF k = 0 THEN <<>>
    ELSE IF NewAt(k) THEN Append(NewUpTo(k - 1), pushes.elts[k])
    ELSE NewUpTo(k - 1)

\* C1: h2_push_diary_update on a session with a diary returns exactly the
\* candidates whose hash was not in the diary when each was processed, in
\* input order; the same candidate given twice to an empty diary is returned
\* once, and a candidate whose hash the diary holds is not returned.
C1_UpdateReturnsNew ==
    Updated =>
        /\ npushes.elts = NewUpTo(Len(pushes.elts))
        /\ npushes.null = (NewUpTo(Len(pushes.elts)) = <<>>)
        /\ \A p \in DiaryPushes :
              /\ (before.entries = <<>> /\ pushes.elts = <<p, p>>)
                    => npushes.elts = <<p>>
              /\ (pushes.elts = <<p>> /\ dcalc(before, p) \in Hashes(before))
                    => npushes.elts = <<>>

\* the same candidate twice in one call on an empty diary, returned once
C1_Witness ==
    /\ Updated
    /\ before.entries = <<>>
    /\ Len(pushes.elts) = 2
    /\ pushes.elts[1] = pushes.elts[2]
    /\ npushes.elts = <<pushes.elts[1]>>

\* C2: a diary never holds more than N entries.
C2_AtMostN ==
    ~push_diary.null => Len(push_diary.entries) <= push_diary.N

\* a full diary took a new hash and is still full
C2_Witness ==
    /\ Updated
    /\ Len(before.entries) = before.N
    /\ ~npushes.null
    /\ Len(push_diary.entries) = push_diary.N

\* the entries of s other than those in H, in order
Without(s, H) == SelectSeq(s, LAMBDA h : h \notin H)

\* C3: recording a new hash in a diary that holds N entries removes exactly
\* the first (least recently inserted or hit) entry and appends the hash; an
\* entry a hit has just promoted is not the one evicted.
C3_EvictsOldest ==
    Updated =>
        \A k \in 1..Len(pushes.elts) :
            LET d == DiaryAt(k - 1)
                e == DiaryAt(k)
            IN  (NewAt(k) /\ Len(d.entries) = d.N) =>
                    /\ e.entries = Tail(d.entries) \o <<HashAt(k)>>
                    /\ Len(e.entries) = d.N
                    /\ (k > 1 /\ ~NewAt(k - 1)) => HashAt(k - 1) \in Hashes(e)

\* the oldest entry of a full diary is hit, then a new hash is recorded: the
\* second oldest entry is the one evicted
C3_Witness ==
    /\ Updated
    /\ Len(before.entries) = before.N
    /\ Len(pushes.elts) = 2
    /\ HashAt(1) = before.entries[1]
    /\ NewAt(2)
    /\ before.entries[1] \in Hashes(push_diary)
    /\ before.entries[2] \notin Hashes(push_diary)

\* C4: a hit moves the entry found to the last place, keeps the order of the
\* other entries and keeps the number and the set of the stored hashes.
C4_HitMovesToLast ==
    Updated =>
        \A k \in 1..Len(pushes.elts) :
            LET d == DiaryAt(k - 1)
                e == DiaryAt(k)
            IN  ~NewAt(k) =>
                    /\ e.entries[Len(e.entries)] = HashAt(k)
                    /\ Without(e.entries, {HashAt(k)}) = Without(d.entries, {HashAt(k)})
                    /\ Len(e.entries) = Len(d.entries)
                    /\ Hashes(e) = Hashes(d)

\* a hit on an entry that was not the last one
C4_Witness ==
    /\ Updated
    /\ Len(pushes.elts) = 1
    /\ Len(before.entries) >= 3
    /\ HashAt(1) = before.entries[2]
    /\ push_diary.entries[Len(push_diary.entries)] = before.entries[2]

-----------------------------------------------------------------------------
(* Claims about h2_push_diary_create *)

IsPowerOf2(n) == \E k \in 0..30 : n = Pow2(k)

\* C9: for every configured size N > 0 the diary created has a capacity that
\* is a power of two, at least 2 and at least N.
C9_CapacityRoundedUp ==
    (op = "create" /\ confN > 0) =>
        /\ ~push_diary.null
        /\ IsPowerOf2(push_diary.N)
        /\ push_diary.N >= 2
        /\ push_diary.N >= confN

\* what holds of the code: the same for the sizes up to 2^30
C9_CapacityRoundedUpTo2Pow30 ==
    (op = "create" /\ confN > 0 /\ confN <= Pow2(30)) =>
        /\ ~push_diary.null
        /\ IsPowerOf2(push_diary.N)
        /\ push_diary.N >= 2
        /\ push_diary.N >= confN
        /\ (push_diary.N \div 2 < confN \/ confN = 1)

-----------------------------------------------------------------------------
(* Claims about the cache digest *)

\* the last call was a digest export for an authority in the diary's scope
DigestMatched ==
    /\ op = "digest_get"
    /\ \/ digest.authority = NULL
       \/ digest.authority = <<"*">>
       \/ digest.authority = before.authority

\* log2n and log2p as the two header bytes give them
HeaderLog2n == digest.pdata[1]

HeaderLog2p == digest.pdata[2]

HeaderDeltaBits == before.mask_bits - (HeaderLog2n + HeaderLog2p)

\* the diary's hashes shifted right by delta_bits, as a set: sorted
\* ascending, this is the sorted array without its duplicates
ShiftedHashes(diary, delta_bits) ==
    { U64ShrNat(diary.entries[i], delta_bits) : i \in 1..Len(diary.entries) }

RECURSIVE Ascending(_)
Ascending(S) ==
    IF S = {} THEN <<>>
    ELSE LET m == CHOOSE x \in S : \A y \in S : x <= y
         IN  <<m>> \o Ascending(S \ {m})

\* the Golomb-Rice code of one delta: delta >> log2p ones, a zero, then the
\* low log2p bits of delta, most significant first
RiceCode(delta, log2p) ==
    [ i \in 1..(delta \div Pow2(log2p)) |-> 1 ] \o <<0>>
    \o [ i \in 1..log2p |-> (delta \div Pow2(log2p - i)) % 2 ]

RECURSIVE RiceCodes(_, _, _)
\* the codes of the successive differences of the ascending values v,
\* starting from last
RiceCodes(v, last, log2p) ==
    IF v = <<>> THEN <<>>
    ELSE RiceCode(v[1] - last, log2p) \o RiceCodes(Tail(v), v[1], log2p)

\* bit i (from 1) of the bytes, most significant bit of each byte first
BitOfBytes(bytes, i) ==
    (bytes[((i - 1) \div 8) + 1] \div Pow2(7 - ((i - 1) % 8))) % 2

\* the bytes hold exactly the bits, packed most significant bit first
PackedAs(bytes, bits) ==
    /\ Len(bytes) = (Len(bits) + 7) \div 8
    /\ \A i \in 1..Len(bits) : BitOfBytes(bytes, i) = bits[i]

\* the bits the digest of the diary is to hold after its header
ExpectedBits ==
    RiceCodes(Ascending(ShiftedHashes(before, HeaderDeltaBits)), 0, HeaderLog2p)

\* the bytes of the digest after its 2-byte header
DigestBody == SubSeq(digest.pdata, 3, digest.plen)

C10_EncodesArrayRead ==
    DigestMatched =>
        /\ PackedAs(DigestBody, RiceCodes(Ascending(Range(digest.hashes)), 0, HeaderLog2p))
        /\ Len(digest.hashes) = Len(before.entries)
        /\ \A i \in 1..Len(digest.hashes) :
              HashSlotInBounds(i - 1, Len(before.entries)) =>
                  digest.hashes[i] \in ShiftedHashes(before, HeaderDeltaBits)

\* the least k >= 1 with x <= 2^k: log2 of the power of two that x is
\* rounded up to, 0 and 1 being rounded up to 2
CeilLog2(x) ==
    IF \E k \in 1..30 : x <= Pow2(k)
    THEN CHOOSE k \in 1..30 : x <= Pow2(k) /\ (k = 1 \/ x > Pow2(k - 1))
    ELSE 31

\* C11: the first byte of every digest is log2(ceil_pow2(n)) for the n
\* entries of the diary, the second is min(mask_bits - log2n,
\* log2(ceil_pow2(maxP))), also for n = 0 and for maxP <= 0.
C11_HeaderBytes ==
    op = "digest_get" =>
        /\ digest.plen >= 2
        /\ HeaderLog2n = CeilLog2(Len(before.entries))
        /\ HeaderLog2p = H2MIN(before.mask_bits - HeaderLog2n, CeilLog2(digest.maxP))

\* digests were made of an empty diary with maxP <= 0 and of a diary with
\* three entries with a maxP that is not a power of two
C11_Witness ==
    /\ op = "digest_get"
    /\ \/ Len(before.entries) = 0 /\ digest.maxP <= 0
       \/ Len(before.entries) = 3 /\ digest.maxP = 3 /\ digest.pdata[1] = 2
                                  /\ digest.pdata[2] = 2

\* the last call asked for the digest of an authority that is set, is not
\* "*" and is not the one the diary is bound to
DigestMismatched ==
    /\ op = "digest_get"
    /\ digest.authority \notin { NULL, <<"*">> }
    /\ before.authority # NULL
    /\ before.authority # digest.authority

\* C12: a digest asked for an authority that is set, is not "*" and differs
\* from the one the diary is bound to is a success of exactly the two header
\* bytes, whatever the diary holds.
C12_MismatchGivesHeaderOnly ==
    DigestMismatched =>
        /\ digest.status = "APR_SUCCESS"
        /\ digest.plen = 2
        /\ Len(digest.pdata) = 2
        /\ digest.hashes = <<>>

\* a diary with entries, bound to example.com, was asked for other.com
C12_Witness ==
    /\ DigestMismatched
    /\ Len(before.entries) >= 2
    /\ digest.plen = 2

\* C13: when a request for a larger buffer fails during the encoding, so
\* that gset_encode_bit returns APR_ENOMEM, h2_push_diary_digest_get returns
\* a status that is not success.
C13_EnomemReported ==
    (op = "digest_get" /\ digest.enomem) => digest.status # "APR_SUCCESS"

\* C14: h2_push_diary_digest_get leaves the diary as it was, whether the
\* authority matched or not and whether an allocation failed or not: the
\* same entries in the same order, the same capacity and mask_bits.
C14_DiaryUnchanged ==
    op = "digest_get" =>
        /\ push_diary.entries = before.entries
        /\ push_diary.N = before.N
        /\ push_diary.NMax = before.NMax
        /\ push_diary.mask_bits = before.mask_bits
        /\ push_diary = before

\* an export of a full diary during which an allocation failed
C14_Witness ==
    /\ op = "digest_get"
    /\ digest.enomem
    /\ Len(before.entries) >= MaxGrowEntries - 3
    /\ push_diary.entries = before.entries

-----------------------------------------------------------------------------
(* Claims about the push candidates of a response *)

\* the link-values of the response, in the order the header scan meets them
AllLinkValues == Flatten(link_values)

\* h2_push_collect has run for a request under a policy that pushes
Collected == op = "collect" /\ ~req.null /\ push_policy # H2_PUSH_NONE

\* the paths of the candidates returned
PushPaths == [ i \in 1..Len(pushes.elts) |-> pushes.elts[i].req.path ]

\* the parameters of lv called name, whatever the case of their letters
ParamsNamed(lv, name) ==
    SelectSeq(lv.params, LAMBDA p : LowerStr(p.name) = LowerStr(name))

HasParam(lv, name) == ParamsNamed(lv, name) # <<>>

\* the value of the parameter name of lv: the last one given
ParamValue(lv, name) ==
    LET ps == ParamsNamed(lv, name) IN ps[Len(ps)].value

\* tok is one of the space-separated tokens of val
HasToken(val, tok) ==
    \E a \in 1..Len(val) :
        LET b == a + Len(tok) - 1
        IN  /\ b <= Len(val)
            /\ SubSeq(val, a, b) = tok
            /\ a = 1 \/ val[a - 1] = " "
            /\ b = Len(val) \/ val[b + 1] = " "

\* the rel parameter of lv has preload among its relation types
RelHasPreload(lv) == HasParam(lv, s_rel) /\ HasToken(ParamValue(lv, s_rel), s_preload)

\* the target of lv, parsed, names no other scheme and no other host than r
TargetOfRequest(lv, r) ==
    LET uri == apr_uri_parse(lv.target)
    IN  /\ uri.scheme \in { NULL, r.scheme }
        /\ uri.hostinfo \in { NULL, r.authority }

\* the target of lv, parsed, has a path
TargetHasPath(lv) ==
    LET uri == apr_uri_parse(lv.target) IN uri.ok /\ uri.path # NULL

\* the path a candidate for lv carries
TargetPath(lv) == apr_uri_unparse_omitsitepart(apr_uri_parse(lv.target))

\* the positions of AllLinkValues that satisfy P
LinkValuesWhere(P(_)) == { i \in 1..Len(AllLinkValues) : P(AllLinkValues[i]) }

\* C5: h2_push_collect produces no candidate for a link target whose parsed
\* URI names a hostinfo other than the request's authority or a scheme other
\* than the request's scheme, whichever of scheme and host the target has;
\* a target with neither passes the check.
C5_SameAuthorityOnly ==
    op = "collect" =>
        LET own(lv) == TargetOfRequest(lv, req)
            bare(lv) == LET uri == apr_uri_parse(lv.target)
                        IN  uri.scheme = NULL /\ uri.hostinfo = NULL
        IN  /\ Len(pushes.elts) <= Cardinality(LinkValuesWhere(own))
            /\ \A i \in 1..Len(pushes.elts) :
                   \E j \in LinkValuesWhere(own) :
                       PushPaths[i] = TargetPath(AllLinkValues[j])
            /\ ( /\ Collected
                 /\ Len(AllLinkValues) = 1
                 /\ bare(AllLinkValues[1])
                 /\ TargetHasPath(AllLinkValues[1])
                 /\ AllLinkValues[1].params = <<p_rel_preload>> )
               => PushPaths = <<TargetPath(AllLinkValues[1])>>

\* a preload link to another host, and one to another scheme, gave nothing
C5_Witness ==
    /\ Collected
    /\ Len(AllLinkValues) = 1
    /\ AllLinkValues[1].params = <<p_rel_preload>>
    /\ TargetHasPath(AllLinkValues[1])
    /\ apr_uri_parse(AllLinkValues[1].target).scheme = req.scheme
    /\ apr_uri_parse(AllLinkValues[1].target).hostinfo \notin { NULL, req.authority }
    /\ pushes.elts = <<>>

\* C6: a link-value to a same-authority path without nopush is accepted
\* whenever its rel parameter, a single token or a space-separated list, has
\* the token preload at any position of it.
C6_PreloadTokenAccepted ==
    ( /\ Collected
      /\ Len(AllLinkValues) = 1
      /\ TargetHasPath(AllLinkValues[1])
      /\ TargetOfRequest(AllLinkValues[1], req)
      /\ ~HasParam(AllLinkValues[1], s_nopush)
      /\ RelHasPreload(AllLinkValues[1]) )
    => PushPaths = <<TargetPath(AllLinkValues[1])>>

SingleRelTypes ==
    \A i \in 1..Len(AllLinkValues) :
        \A k \in 1..Len(AllLinkValues[i].params) :
            LET p == AllLinkValues[i].params[k]
            IN  LowerStr(p.name) = s_rel => " " \notin Range(p.value)

\* lv has rel=preload, a target of the request with a path, and no nopush
Qualifies(lv) ==
    /\ RelHasPreload(lv)
    /\ ~HasParam(lv, s_nopush)
    /\ TargetHasPath(lv)
    /\ TargetOfRequest(lv, req)

RECURSIVE QualifyingPaths(_)
\* the paths of the qualifying link-values of lvs, in order
QualifyingPaths(lvs) ==
    IF lvs = <<>> THEN <<>>
    ELSE (IF Qualifies(Head(lvs)) THEN <<TargetPath(Head(lvs))>> ELSE <<>>)
         \o QualifyingPaths(Tail(lvs))

-----------------------------------------------------------------------------
(* Claims about header texts that are not well-formed *)

\* the text of the response's Link field
LinkText == res_headers[1][2]

\* text begins with pre
StartsWith(text, pre) ==
    Len(text) >= Len(pre) /\ SubSeq(text, 1, Len(pre)) = pre

\* what follows the first n characters of text
After(text, n) == SubSeq(text, n + 1, Len(text))

s_path_a == <<"/", "a">>

\* C15: an unterminated quoted string is never accepted as a parameter
\* value: a link-value </a>; rel="preload whose quote is closed nowhere in
\* the field is abandoned and yields no candidate.
C15_UnterminatedQuoteRejected ==
    LET pre == <<"<", "/", "a", ">">> \o s_rel_quote_preload
    IN  ( /\ Collected
          /\ StartsWith(LinkText, pre)
          /\ "\"" \notin Range(After(LinkText, Len(pre)))
          /\ ap_strstr_c(After(LinkText, Len(pre)), <<"<", "/", "a", ">">>) = 0 )
        => s_path_a \notin Range(PushPaths)

\* the first character of text that is neither a space nor a tab is not one
\* of a parameter name, or there is none
NoNameAhead(text) ==
    \/ \A k \in 1..Len(text) : text[k] \in { " ", "\t" }
    \/ \E k \in 1..Len(text) :
           /\ \A j \in 1..(k - 1) : text[j] \in { " ", "\t" }
           /\ text[k] \notin { " ", "\t" }
           /\ ~attr_char(text[k])

\* C16: when the ; after </a>; rel=preload is not followed by a parameter
\* name, that link-value yields no candidate or no further link-value of the
\* field is processed (so none of them yields a candidate).
C16_BadNameAbandons ==
    LET pre == s_a_preload \o <<";">>
    IN  ( /\ Collected
          /\ StartsWith(LinkText, pre)
          /\ NoNameAhead(After(LinkText, Len(pre)))
          /\ ap_strstr_c(After(LinkText, Len(pre)), <<"<", "/", "a", ">">>) = 0 )
        => \/ s_path_a \notin Range(PushPaths)
           \/ Len(PushPaths) <= 1

\* C17: inspect_link terminates on every header text: the cursor ctx->i only
\* moves forward and never beyond ctx->slen, every iteration of the
\* link-value loop and of the parameter loop consumes at least one
\* character, and the scan comes to its end.
C17_ScanTerminates ==
    /\ [](0 <= link_ctx.ctx.i /\ link_ctx.ctx.i <= link_ctx.ctx.slen)
    /\ [][link_ctx'.ctx.i >= link_ctx.ctx.i]_vars
    /\ [](link_ctx.pc = "read_link" =>
            LET l == read_link(link_ctx.ctx) IN l.ok => l.ctx.i > link_ctx.ctx.i)
    /\ [](link_ctx.pc = "read_param" =>
            LET p == read_param(link_ctx.ctx) IN p.ok => p.ctx.i > link_ctx.ctx.i)
    /\ [](link_ctx.pc = "read_sep" =>
            LET p == read_sep(link_ctx.ctx) IN p.ok => p.ctx.i > link_ctx.ctx.i)
    /\ (link_ctx.pc = "read_link") ~> (link_ctx.pc = "done")

\* a scan that gave a candidate has ended before the end of a text that is
\* not well-formed
C17_Witness ==
    /\ link_ctx.pc = "done"
    /\ link_ctx.ctx.i < link_ctx.ctx.slen
    /\ link_ctx.ctx.pushes.elts # <<>>
    /\ "\"" \in Range(link_ctx.ctx.s)

-----------------------------------------------------------------------------
(* Claims about parameter names, request headers and the policy header *)

\* the parameters of lv whose name is name, letter for letter
ParamsSpelled(lv, name) == SelectSeq(lv.params, LAMBDA p : p.name = name)

\* the last parameter of lv spelled rel has preload among its relation types
SpelledRelHasPreload(lv) ==
    LET ps == ParamsSpelled(lv, s_rel)
    IN  ps # <<>> /\ HasToken(ps[Len(ps)].value, s_preload)

\* C18: parameters are stored under their case-sensitive names, the last
\* occurrence of a name giving its value: a link-value to a same-authority
\* path is accepted exactly when the last parameter spelled rel has the
\* relation type preload and no parameter is spelled nopush; Rel and NoPush
\* are other parameters.
C18_CaseSensitiveNames ==
    ( /\ Collected
      /\ Len(AllLinkValues) = 1
      /\ SingleRelTypes
      /\ TargetHasPath(AllLinkValues[1])
      /\ TargetOfRequest(AllLinkValues[1], req) )
    => ( PushPaths # <<>> <=>
           /\ SpelledRelHasPreload(AllLinkValues[1])
           /\ ParamsSpelled(AllLinkValues[1], s_nopush) = <<>> )

\* the names of the request headers a push request may carry, in lower case
AllowedNames ==
    { <<"u", "s", "e", "r", "-", "a", "g", "e", "n", "t">>,
      <<"a", "c", "c", "e", "p", "t">>,
      <<"a", "c", "c", "e", "p", "t", "-", "e", "n", "c", "o", "d", "i", "n", "g">>,
      <<"a", "c", "c", "e", "p", "t", "-", "l", "a", "n", "g", "u", "a", "g", "e">>,
      <<"c", "a", "c", "h", "e", "-", "c", "o", "n", "t", "r", "o", "l">> }

\* the entries of the header table t whose name is an allowed one
AllowedEntries(t) ==
    { t[i] : i \in { k \in 1..Len(t) : LowerStr(t[k][1]) \in AllowedNames } }

\* C19: the headers of every push request are exactly the originating
\* request's headers named, ignoring case, User-Agent, Accept,
\* Accept-Encoding, Accept-Language or Cache-Control, with their names and
\* values as they are; no other header is copied.
C19_OnlyAllowedHeadersCopied ==
    op = "collect" =>
        \A i \in 1..Len(pushes.elts) :
            /\ Range(pushes.elts[i].req.headers) = AllowedEntries(req.headers)
            /\ Len(pushes.elts[i].req.headers) = Cardinality(AllowedEntries(req.headers))

\* a push request was built for a request with an allowed header in another
\* spelling and a header whose name only starts with an allowed name
C19_Witness ==
    /\ Collected
    /\ Len(pushes.elts) = 1
    /\ Len(req.headers) = 2
    /\ \E e \in Range(req.headers) : e[1] = <<"A", "C", "C", "E", "P", "T", "-", "E", "N", "C", "O", "D", "I", "N", "G">>
    /\ \E e \in Range(req.headers) : e[1] = <<"A", "c", "c", "e", "p", "t", "-", "C", "h", "a", "r", "s", "e", "t">>
    /\ Len(pushes.elts[1].req.headers) = 1

\* the name of a policy that pushes, as the configuration spells it
PolicyName(policy) ==
    CASE policy = H2_PUSH_DEFAULT -> <<"d", "e", "f", "a", "u", "l", "t">>
      [] policy = H2_PUSH_HEAD -> <<"h", "e", "a", "d", "-", "o", "n", "l", "y">>
      [] policy = H2_PUSH_FAST_LOAD -> <<"f", "a", "s", "t", "-", "l", "o", "a", "d">>

\* C20: h2_push_collect sets the response header push-policy exactly when it
\* produced a candidate, to the name of the policy (default, head-only or
\* fast-load); with the policy none, or when nothing qualifies, it returns
\* no candidate and leaves the header unset.
C20_PolicyHeaderNamesPolicy ==
    op = "collect" =>
        /\ (req.null \/ push_policy = H2_PUSH_NONE) => pushes.elts = <<>>
        /\ IF pushes.elts # <<>>
           THEN apr_table_get(res_headers, s_push_policy) = PolicyName(push_policy)
           ELSE apr_table_get(res_headers, s_push_policy) = NULL

\* the same with the value policy_str gives
C20_PolicyHeaderIsPolicyStr ==
    op = "collect" =>
        /\ (req.null \/ push_policy = H2_PUSH_NONE) => pushes.elts = <<>>
        /\ IF pushes.elts # <<>>
           THEN apr_table_get(res_headers, s_push_policy) = policy_str(push_policy)
           ELSE apr_table_get(res_headers, s_push_policy) = NULL

-----------------------------------------------------------------------------
(* Claims about the method and the priority of a candidate *)

\* C21: every candidate has the method HEAD when the push policy is
\* head-only and GET under every other policy that produces candidates.
C21_MethodFollowsPolicy ==
    op = "collect" =>
        \A i \in 1..Len(pushes.elts) :
            pushes.elts[i].req.method =
                IF push_policy = H2_PUSH_HEAD THEN s_HEAD ELSE s_GET

\* a candidate with method HEAD under the head-only policy
C21_Witness ==
    /\ Collected
    /\ push_policy = H2_PUSH_HEAD
    /\ Len(pushes.elts) >= 1
    /\ pushes.elts[1].req.method = s_HEAD

RECURSIVE QualifyingPriorities(_)
\* BEFORE or nothing for each qualifying link-value of lvs, in order, as it
\* has a critical parameter or not
QualifyingPriorities(lvs) ==
    IF lvs = <<>> THEN <<>>
    ELSE (IF Qualifies(Head(lvs))
          THEN << IF HasParam(Head(lvs), s_critical)
                  THEN "H2_DEPENDANT_BEFORE" ELSE "NULL" >>
          ELSE <<>>)
         \o QualifyingPriorities(Tail(lvs))

-----------------------------------------------------------------------------
(* Further claims about the push diary *)

\* C23: in a session without a push diary (h2_push_diary_create was given
\* N <= 0), h2_push_diary_update returns the array it was given, with the
\* same candidates in the same order, and records nothing.
C23_NoDiaryPassesThrough ==
    (op = "update" /\ before.null) =>
        /\ npushes = pushes
        /\ push_diary = before
        /\ push_diary.entries = <<>>

\* an array with the same candidate twice went through a session created
\* with N <= 0
C23_Witness ==
    /\ op = "update"
    /\ confN <= 0
    /\ before.null
    /\ Len(pushes.elts) = 2
    /\ pushes.elts[1] = pushes.elts[2]
    /\ npushes = pushes

-----------------------------------------------------------------------------
(* Further claims about the cache digest *)

\* the orders the entries es can be in
Reorderings(es) ==
    { [ i \in 1..Len(es) |-> es[f[i]] ] :
        f \in { g \in [ 1..Len(es) -> 1..Len(es) ] :
                  \A i, j \in 1..Len(es) : i # j => g[i] # g[j] } }

\* the exports a second call with the same maxP and authority can give for
\* a diary of the same hashes in any order of recency
SecondExports ==
    UNION { diary_digest_get([ push_diary EXCEPT !.entries = es ],
                             digest.maxP, digest.authority, {}) :
              es \in Reorderings(push_diary.entries) }

C24_DeterministicArrayAsWritten ==
    (DigestMatched /\ ~digest.enomem /\ Range(digest.hashes) = ShiftedHashes(before, HeaderDeltaBits)) =>
        \A r \in SecondExports :
            Range(r.hashes) = ShiftedHashes(before, HeaderDeltaBits) =>
                r.pdata = digest.pdata /\ r.plen = digest.plen

\* C28: the buffer h2_push_diary_digest_get allocates for the shifted hashes
\* has at least 8 bytes for each of the 64-bit hashes stored and sorted in it.
C28_HashesBufferLargeEnough ==
    op = "digest_get" => digest.hashes_size >= 8 * Len(digest.hashes)

\* C25: ceil_power_of_2 returns a power of two N >= 2 unchanged, so that
\* applying it again changes nothing; for 0 and for 1 it returns 2.
C25_PowerOfTwoUnchanged ==
    op = "create" =>
        /\ (IsPowerOf2(confN) /\ confN >= 2) =>
               /\ push_diary.N = confN
               /\ ceil_power_of_2(push_diary.N) = push_diary.N
        /\ confN = 1 => push_diary.N = 2
        /\ confN = 0 => ceil_power_of_2(confN) = 2

\* a diary was created for N = 2^30, the largest power of two of an int
C25_Witness ==
    /\ op = "create"
    /\ confN = Pow2(30)
    /\ push_diary.N = Pow2(30)

\* C26: for every diary that diary_create returns for a size N > 0 and every
\* array of candidates h2_push_diary_update terminates: the eviction loop of
\* h2_push_diary_append brings the number of entries below the capacity.
C26_UpdateTerminates ==
    (confN > 0 /\ op \in { "update", "hang" }) =>
        /\ op # "hang"
        /\ Len(push_diary.entries) <= push_diary.N

\* the same for the sizes up to 2^30
C26_UpdateTerminatesUpTo2Pow30 ==
    (confN > 0 /\ confN <= Pow2(30) /\ op \in { "update", "hang" }) =>
        /\ op # "hang"
        /\ Len(push_diary.entries) <= push_diary.N

\* C27: in every state reached from an empty diary by h2_push_diary_update
\* calls the hashes stored in the diary are pairwise distinct, also when a
\* candidate occurs several times in one array or comes back after other
\* entries were promoted or evicted.
C27_HashesDistinct ==
    \A i, j \in 1..Len(push_diary.entries) :
        i # j => push_diary.entries[i] # push_diary.entries[j]

\* an array holding a candidate twice, or a candidate that is already the
\* first entry of a diary of several, was recorded
C27_Witness ==
    /\ op = "update"
    /\ Len(push_diary.entries) >= 2
    /\ Len(pushes.elts) = 2
    /\ \/ pushes.elts[1] = pushes.elts[2]
       \/ /\ Len(before.entries) >= 2
          /\ dcalc(before, pushes.elts[2]) = before.entries[1]

\* a buffer length no digest of the model reaches
UnboundedLen == Pow2(30)

\* the encoder after the hashes the export read, had its buffer been of
\* UnboundedLen bytes from the start
UnboundedExport ==
    encode_hashes([ digest_encoder(before, digest.maxP) EXCEPT !.datalen = UnboundedLen ],
                  digest.hashes, 1, Len(digest.hashes))

\* C29: every byte gset_encode_bit writes is at an index below the current
\* buffer length; an exhausted buffer is replaced by one of twice the length
\* holding the bytes written so far, so a digest longer than the first
\* buffer is the digest an unbounded buffer would give, and the length
\* reported is the index of the last byte written plus one.
C29_GrowthKeepsOutput ==
    (op = "digest_get" /\ ~digest.enomem) =>
        /\ ~digest.overrun
        /\ \E k \in 0..MaxAllocs : digest.datalen = Pow2(k) * InitialDataLen
        /\ Len(digest.pdata) <= digest.datalen
        /\ digest.plen = Len(digest.pdata)
        /\ digest.pdata = UnboundedExport.data
        /\ digest.plen = UnboundedExport.offset + 1

\* a digest longer than the first buffer was exported
C29_Witness ==
    /\ op = "digest_get"
    /\ ~digest.enomem
    /\ digest.datalen = 2 * InitialDataLen
    /\ digest.plen > InitialDataLen
    /\ digest.pdata[InitialDataLen + 1] \in 0..255

-----------------------------------------------------------------------------
(* Claim about the scheme, authority and path of a candidate *)

\* the scheme and authority part the target of lv starts with, spelled with
\* the scheme and authority of r
SitePart(lv, r) ==
    LET uri == apr_uri_parse(lv.target)
    IN  IF uri.hostinfo = NULL THEN <<>>
        ELSE (IF uri.scheme = NULL THEN <<>> ELSE r.scheme \o <<":">>)
             \o <<"/", "/">> \o r.authority

\* C30: every candidate of h2_push_collect has the scheme and the authority
\* of the originating request, whatever the link target contains; its path
\* is the link target without its scheme and authority part.
C30_SchemeAuthorityOfRequest ==
    op = "collect" =>
        \A i \in 1..Len(pushes.elts) :
            /\ pushes.elts[i].req.scheme = req.scheme
            /\ pushes.elts[i].req.authority = req.authority
            /\ \E j \in 1..Len(AllLinkValues) :
                   AllLinkValues[j].target =
                       SitePart(AllLinkValues[j], req) \o pushes.elts[i].req.path

\* <https://example.com/a> gave a candidate with the path /a and the scheme
\* and authority of the request
C30_Witness ==
    /\ Collected
    /\ Len(pushes.elts) = 1
    /\ Len(AllLinkValues) = 1
    /\ pushes.elts[1].req.scheme = req.scheme
    /\ pushes.elts[1].req.authority = s_example_com
    /\ pushes.elts[1].req.path = <<"/", "a">>
    /\ AllLinkValues[1].target = s_https \o <<":", "/", "/">> \o s_example_com \o <<"/", "a">>

=============================================================================
